---- MODULE Spec2Model ----
(***************************************************************************)
(* Frame pipeline, run loop and material cache of the gamekit runtime.     *)
(*                                                                         *)
(* The CPU side is the single render thread of Exec::run; the GPU side is  *)
(* a second process that completes submitted command buffers and signals   *)
(* their fences.                                                           *)
(***************************************************************************)
EXTENDS Integers, Sequences, FiniteSets, TLC

\* ------------------------------------------------------------------ bounds

\* Constants::FRAME_BUFFER_COUNT
FRAME_BUFFER_COUNT == 2

\* loop iterations of Exec::run before the window reports "closed"
MaxFrames == 3

\* number of swapchain images the surface hands out
ImageCount == 2

\* add_* builder calls made over the life of the material
MaxAdds == 1

Slots == 0 .. (FRAME_BUFFER_COUNT - 1)

\* size_of::<T>() of the uniform's data ranges over 1 .. MaxDataSize
MaxDataSize == 5

\* min_uniform_buffer_offset_alignment ranges over 2^0 .. 2^MaxAlignLog
MaxAlignLog == 2

\* dynamic_array_elements passed to Uniform::new ranges over 0 .. MaxElements
MaxElements == 2

\* idx passed to set_array_index and ofs passed to set_offset range over 0 .. MaxIndex
MaxIndex == 2

\* size in bytes of a vertex, index, uniform or storage buffer ranges over 1 .. MaxBufferSize
MaxBufferSize == 3

\* enumerate_physical_devices returns 0 .. MaxAdapters adapters
MaxAdapters == 2

\* an adapter has 0 .. MaxFamilies queue families
MaxFamilies == 2

\* a surface reports 0 .. MaxFormats formats
MaxFormats == 2

\* Pipeline::reinit runs up to MaxRebuilds times on the selected device
MaxRebuilds == 2

\* a material declares 0 .. MaxUniforms uniforms
MaxUniforms == 2

\* a material declares 0 .. MaxTextures textures
MaxTextures == 2

\* a VertexQueue holds 1 .. MaxCapacity quads
MaxCapacity == 2

\* usize is UsizeBits wide
UsizeBits == 3

\* a frame records up to MaxBatches draws of the queue
MaxBatches == 2

\* Tasks holds 1 .. MaxTasks tasks
MaxTasks == 2

VARIABLES
    \* Exec::run
    pc,                 \* position of the render thread
    frames,             \* loop iterations started
    begin_ret,          \* what the last Renderer::begin_frame returned
    end_ret,            \* what the last Renderer::end_frame returned
    \* Pipeline
    frame_index,
    image_index,
    need_reinit,
    reinitialized,      \* the local of Pipeline::begin_frame
    pipeline_objects,   \* "live" | "destroyed": swapchain, views, render pass, frames
    render_pass,        \* generation of the current render pass
    \* Frame (one per slot)
    fence,              \* command_buffers_completed is signaled
    cmd,                \* command buffer: "initial" | "recording" | "executable"
    \* GPU
    inflight,           \* the slot's last submission has not finished executing
    \* Renderer
    pipeline_active,
    \* Material (the renderer's current material) and the device objects it owns
    material,
    gpu_objects,        \* handles of live compiled objects
    handle_seq,         \* handles handed out so far
    samplers,           \* samplers created by Texture::get_binding
    bound,              \* what the last bind() bound in the command buffer
    adds,               \* add_* calls so far
    \* history kept for the properties
    last_acquire,       \* result of the last acquire_next_image
    last_present,       \* result of the last queue_present
    prev_present,       \* result of the queue_present before that
    call_destroys,      \* destroy_pipeline runs in the current begin_frame call
    call_creates,       \* create_pipeline runs in the current begin_frame call
    call_acquires,      \* acquire_next_image calls in the current begin_frame call
    rebuild_failed,     \* a create_pipeline has returned Err
    late_rebuild,       \* a rebuild was attempted after one had failed
    end_count,          \* end_frame calls with a successful present since the last rebuild
    entry_flag,         \* need_reinit at entry of the current begin_frame call
    overlap,            \* begin_frame passed the fence wait with the fence unsignaled
                        \* or the slot's submission still executing
    abort_touched,      \* an aborted acquisition changed a command buffer, the image
                        \* index, the renderer or the bind state, or returned Ok
    compiles,           \* free-and-rebuild runs since the last add_* (or construction)
    binds,              \* bind()/compile() calls since the last add_* (capped at 2)
    last_op,            \* the last operation on the material
    clean_change,       \* a bind()/compile() of a clean material changed a compiled object
    add_touched,        \* an add_* call changed a compiled object or left the flag clear
    stale_kept,         \* a recompilation kept an object of the previous compilation
    \* teardown
    pipeline_gen,       \* per object the pipeline owns: its generation, 0 when destroyed
    old_gen,            \* pipeline_gen at entry of the current begin_frame call
    event_log,          \* the device calls of the last reinit, or of the shutdown
    disposed,           \* Exec::dispose has run
    \* GPU-side synchronisation
    sem,                \* the semaphores that are signaled
    acquiring,          \* per slot: the frame whose acquire still owes the signal of
                        \* image_available, 0 when none
    submission,         \* per slot: the batch handed to queue_submit
    presents,           \* the queue_present requests not yet carried out
    gpu_order,          \* per frame: what the GPU and the presentation engine did, in order
    \* a RenderState and the last call on it
    render_state,       \* the RenderState
    rs_before,          \* the RenderState before the last call
    rs_call,            \* the last call: its name and its argument
    \* Device
    limits,             \* DeviceLimits
    \* Device::new and the swapchains created on the device
    device_count,       \* number of adapters enumerate_physical_devices returns
    physical,           \* create_physical_device: status, adapters examined, result
    examined,           \* what the adapters examined so far were, by the constraints
    logical,            \* create_logical_device: status, what the driver reported, flags
    swapchain,          \* the SwapChain of the pipeline
    render_pass_format, \* colour attachment format of the pipeline's render pass
    surface_now,        \* the first format of the surface when the swapchain was made
    rebuilds,           \* Pipeline::reinit calls so far
    \* a Material with its descriptor pool and sets in detail
    detail,             \* the material
    detail_calls,       \* the device calls of the last bind
    detail_frame,       \* index of the current frame slot
    detail_panicked,    \* an unwrap of the last bind panicked
    \* Tasks: the asynchronous tasks and the thread that starts and stops them
    task_handle,        \* per task: Task.handle, "none" or "some"
    task_running,       \* per task: Task.running, the flag behind the mutex
    worker_pc,          \* per task: position of its worker thread
    running_flag,       \* per task: the local of thread_loop
    caller,             \* the thread in Tasks::start / Tasks::stop: call and task
    \* the host writes into the per-frame instances of a uniform buffer
    host_write,         \* the last Uniform::update / update_all: the call, the slots it wrote, those in flight
    \* a VertexQueue, its device-local vertex buffer and the draws of the frame
    vq,                 \* the VertexQueue: capacity, reserved, modified, count, vertices (one value per quad), panicked
    vq_buffer,          \* the device-local vertex buffer, one value per quad, 0 where never written
    vq_draws,           \* the draws recorded into the current frame: quads drawn and the batch pushed for them
    vq_rendered,        \* per draw of the last submitted frame: what the GPU read and what was pushed for it
    vq_call,            \* the last call on the queue: name, count and reserved before it, whether it asked too much
    \* a compiled Material and the blend state of its draws
    blend,              \* the Material: render_state, invalidated, the blend state baked into its pipeline
    blend_features,     \* DeviceFeatures of the logical device
    blend_drawn,        \* the blend state in effect for the draws after the last bind
    blend_op,           \* the last operation on the material
    \* the application object behind its mutex and the threads that call it
    app_mutex,          \* the thread that holds the application mutex, -1 when none
    main_cb,            \* the main thread: the callback it calls and whether it waits for the mutex or runs it
    task_cb,            \* per task: where its thread is in thread_loop
    \* Uniform<T> and the UniformBuffer behind its buffer_ref
    uniform,
    array_elements,     \* the dynamic_array_elements the uniform was constructed with
    uniform_op,         \* the last operation on the uniform
    array_index,        \* idx of the last set_array_index, -1 once set_offset was called
    last_write,         \* (dest_ofs, len) of the last copy_region_raw into the buffer
    write_after,        \* dest_ofs of the first update() after the last set_array_index
    bind_after,         \* dynamic offsets of the first bind after the last set_array_index
    dynamic_offsets,    \* the dynamic offsets of the last cmd_bind_descriptor_sets
    buffer_info,        \* the DescriptorBufferInfo of the last get_buffer_info
    \* VertexBuffer / IndexBuffer / UniformBuffer / ShaderStorageBuffer
    buffer_objects,     \* its BufferObjects
    buffer_op,          \* the last operation on it: name and region
    upload_lost         \* a copy/copy_region left a byte of the region different from the
                        \* source, or changed a device-local byte outside the region

vars == << pc, frames, begin_ret, end_ret, frame_index, image_index, need_reinit,
           reinitialized, pipeline_objects, render_pass, fence, cmd, inflight,
           pipeline_active, material, gpu_objects, handle_seq, samplers, bound, adds,
           last_acquire, last_present, prev_present, call_destroys, call_creates,
           call_acquires, rebuild_failed, late_rebuild, end_count, entry_flag,
           overlap, abort_touched, compiles, binds, last_op, clean_change,
           add_touched, stale_kept, pipeline_gen, old_gen, event_log, disposed,
           sem, acquiring, submission, presents, gpu_order,
           render_state, rs_before, rs_call,
           device_count, physical, examined, logical, swapchain, render_pass_format,
           surface_now, rebuilds,
           detail, detail_calls, detail_frame, detail_panicked,
           task_handle, task_running, worker_pc, running_flag, caller,
           host_write,
           vq, vq_buffer, vq_draws, vq_rendered, vq_call,
           blend, blend_features, blend_drawn, blend_op,
           app_mutex, main_cb, task_cb,
           limits, uniform, array_elements, uniform_op, array_index, last_write,
           write_after, bind_after, dynamic_offsets, buffer_info,
           buffer_objects, buffer_op, upload_lost >>

\* the variables of Exec::run, the pipeline and the material
exec_vars == << pc, frames, begin_ret, end_ret, frame_index, image_index, need_reinit,
                reinitialized, pipeline_objects, render_pass, fence, cmd, inflight,
                pipeline_active, material, gpu_objects, handle_seq, samplers, bound,
                adds, last_acquire, last_present, prev_present, call_destroys,
                call_creates, call_acquires, rebuild_failed, late_rebuild, end_count,
                entry_flag, overlap, abort_touched, compiles, binds, last_op,
                clean_change, add_touched, stale_kept, pipeline_gen, old_gen,
                event_log, disposed, sem, acquiring, submission, presents, gpu_order >>

sync_vars == << sem, acquiring, submission, presents, gpu_order >>

teardown_vars == << pipeline_gen, old_gen, event_log, disposed >>

uniform_vars == << limits, uniform, array_elements, uniform_op, array_index,
                   last_write, write_after, bind_after, dynamic_offsets, buffer_info >>

\* the variables the run loop never touches
buffer_vars == << buffer_objects, buffer_op, upload_lost >>

render_state_vars == << render_state, rs_before, rs_call >>

device_vars == << device_count, physical, examined, logical, swapchain,
                  render_pass_format, surface_now, rebuilds >>

detail_vars == << detail, detail_calls, detail_frame, detail_panicked >>

task_vars == << task_handle, task_running, worker_pc, running_flag, caller >>

write_vars == << host_write >>

vq_vars == << vq, vq_buffer, vq_draws, vq_rendered, vq_call >>

blend_vars == << blend, blend_features, blend_drawn, blend_op >>

callback_vars == << app_mutex, main_cb, task_cb >>

aside_vars == << uniform_vars, buffer_vars, render_state_vars, device_vars,
                 detail_vars, task_vars,
    write_vars,
    vq_vars,
    blend_vars,
    callback_vars >>

\* what the operations on one group of variables leave alone
uniform_rest == << exec_vars, buffer_vars, render_state_vars, device_vars,
                   detail_vars, task_vars,
    write_vars,
    vq_vars,
    blend_vars,
    callback_vars >>

buffer_rest == << exec_vars, uniform_vars, render_state_vars, device_vars,
                  detail_vars, task_vars,
    write_vars,
    vq_vars,
    blend_vars,
    callback_vars >>

render_state_rest == << exec_vars, uniform_vars, buffer_vars, device_vars,
                        detail_vars, task_vars,
    write_vars,
    vq_vars,
    blend_vars,
    callback_vars >>

device_rest == << exec_vars, uniform_vars, buffer_vars, render_state_vars,
                  detail_vars, task_vars,
    write_vars,
    vq_vars,
    blend_vars,
    callback_vars >>

detail_rest == << exec_vars, uniform_vars, buffer_vars, render_state_vars,
                  device_vars, task_vars,
    write_vars,
    vq_vars,
    blend_vars,
    callback_vars >>

task_rest == << exec_vars, uniform_vars, buffer_vars, render_state_vars,
                device_vars, detail_vars,
    write_vars,
    vq_vars,
    blend_vars,
    callback_vars >>

write_rest == << exec_vars, uniform_vars, buffer_vars, render_state_vars, device_vars, detail_vars, task_vars,
    vq_vars,
    blend_vars,
    callback_vars >>

vq_rest == << exec_vars, uniform_vars, buffer_vars, render_state_vars, device_vars, detail_vars, task_vars, write_vars,
    blend_vars,
    callback_vars >>

blend_rest == << exec_vars, uniform_vars, buffer_vars, render_state_vars, device_vars, detail_vars, task_vars, write_vars, vq_vars,
    callback_vars >>

callback_rest == << exec_vars, uniform_vars, buffer_vars, render_state_vars, device_vars, detail_vars, task_vars, write_vars, vq_vars, blend_vars >>

pipeline_vars == << frame_index, image_index, need_reinit, pipeline_objects,
                    render_pass, fence, cmd >>

material_vars == << material, gpu_objects, handle_seq, samplers, bound, adds, compiles,
                    binds, last_op, clean_change, add_touched, stale_kept >>

history_vars == << last_acquire, last_present, prev_present, call_destroys,
                   call_creates, call_acquires, rebuild_failed, late_rebuild,
                   end_count, entry_flag, overlap, abort_touched >>

\* ---------------------------------------------------------------- Material

\* vk::...::null()
Null == << "null", 0, 0 >>

Range(s) == { s[i] : i \in 1 .. Len(s) }

Min(a, b) == IF a < b THEN a ELSE b

\* Material::new: nothing declared, nothing compiled, dirty
MaterialNew ==
    [ invalidated |-> TRUE,
      modified |-> TRUE,              \* RenderState::default().modified
      shaders |-> 0,
      uniforms |-> << >>,             \* per uniform: is its buffer dynamic
      textures |-> 0,
      push_constant_ranges |-> 0,
      descriptor_pool |-> Null,
      descriptor_set_layout |-> Null,
      pipeline_layout |-> Null,
      graphics_pipeline |-> Null,
      descriptor_sets |-> << >>,
      built_from |-> << >> ]          \* the declarations the compiled objects were created from

\* the declarations a compilation reads
Declared(m) == << m.shaders, m.uniforms, m.textures, m.push_constant_ranges >>

\* every handle the material holds
Held(m) ==
    ({ m.descriptor_pool, m.descriptor_set_layout, m.pipeline_layout,
       m.graphics_pipeline } \cup Range(m.descriptor_sets)) \ { Null }

\* the handles of the compiled objects, as the struct holds them
Compiled(m) ==
    << m.descriptor_pool, m.descriptor_set_layout, m.pipeline_layout,
       m.graphics_pipeline, m.descriptor_sets >>

\* The material together with the device objects and the bind state it acts on:
\* [m, objs, seq, bound]

add_shader(w) ==
    [w EXCEPT !.m.shaders = @ + 1, !.m.invalidated = TRUE]

add_push_constants(w) ==
    [w EXCEPT !.m.push_constant_ranges = @ + 1, !.m.invalidated = TRUE]

add_uniform(w, dynamic) ==
    [w EXCEPT !.m.uniforms = Append(@, dynamic), !.m.invalidated = TRUE]

add_texture(w) ==
    [w EXCEPT !.m.textures = @ + 1, !.m.invalidated = TRUE]

free_descriptor_sets(w) ==
    IF w.m.descriptor_pool # Null
    THEN [w EXCEPT !.objs = @ \ ({ w.m.descriptor_pool } \cup Range(w.m.descriptor_sets)),
                   !.m.descriptor_sets = << >>,
                   !.m.descriptor_pool = Null]
    ELSE w

free_graphics_pipeline_Skipped(w) == w

free_graphics_pipeline(w) ==
    IF w.m.graphics_pipeline # Null
    THEN [w EXCEPT !.objs = @ \ { w.m.graphics_pipeline, w.m.pipeline_layout,
                                  w.m.descriptor_set_layout },
                   !.m.graphics_pipeline = Null,
                   !.m.pipeline_layout = Null,
                   !.m.descriptor_set_layout = Null]
    ELSE w

create_graphics_pipeline(w) ==
    LET n == w.seq + 1
        bindings == Len(w.m.uniforms) + w.m.textures
        layout == IF bindings > 0 THEN << "descriptor_set_layout", n, 0 >> ELSE Null
        pipeline_layout == << "pipeline_layout", n, 0 >>
        graphics_pipeline == << "graphics_pipeline", n, 0 >>
    IN [w EXCEPT !.seq = n,
                 !.objs = @ \cup ({ layout, pipeline_layout, graphics_pipeline } \ { Null }),
                 !.m.descriptor_set_layout = layout,
                 !.m.pipeline_layout = pipeline_layout,
                 !.m.graphics_pipeline = graphics_pipeline,
                 !.m.built_from = Declared(w.m)]

create_descriptor_sets(w) ==
    IF w.m.descriptor_set_layout = Null
    THEN w
    ELSE LET pool == << "descriptor_pool", w.seq, 0 >>
             sets == [ i \in 1 .. FRAME_BUFFER_COUNT |-> << "descriptor_set", w.seq, i - 1 >> ]
         IN [w EXCEPT !.objs = @ \cup ({ pool } \cup Range(sets)),
                      !.m.descriptor_pool = pool,
                      !.m.descriptor_sets = sets]

validate_pipeline_Always(w) ==
    create_descriptor_sets(
      create_graphics_pipeline(
        free_graphics_pipeline(
          free_descriptor_sets([w EXCEPT !.m.invalidated = FALSE]))))

validate_pipeline(w) ==
    IF ~ w.m.invalidated
    THEN w
    ELSE create_descriptor_sets(
           create_graphics_pipeline(
             free_graphics_pipeline(
               free_descriptor_sets([w EXCEPT !.m.invalidated = FALSE]))))

bind_pipeline(w) ==
    [w EXCEPT !.bound.pipeline = w.m.graphics_pipeline]

bind_uniforms(w, frame) ==
    IF Len(w.m.descriptor_sets) > frame
    THEN [w EXCEPT !.bound.set = w.m.descriptor_sets[frame + 1]]
    ELSE w

\* RenderState::push: the dynamic state goes into the command buffer
push(w) ==
    [w EXCEPT !.m.modified = FALSE]

bind(w, frame) ==
    bind_uniforms(push(bind_pipeline(validate_pipeline(w))), frame)

World == [ m |-> material, objs |-> gpu_objects, seq |-> handle_seq, bound |-> bound ]

\* write a world back to the variables
Store(w) ==
    /\ material' = w.m
    /\ gpu_objects' = w.objs
    /\ handle_seq' = w.seq
    /\ bound' = w.bound

\* ----------------------------------------------------------------- Pipeline

\* the outcomes of acquire_next_image and queue_present the code distinguishes
DriverResults == { "success", "suboptimal", "error" }

\* the results that are not a plain success
Stale == DriverResults \ { "success" }

FenceWait_NoWait(k) == TRUE

\* Fence::wait(u64::MAX): returns once the fence is signaled
FenceWait(k) == fence[k]

\* device_wait_idle: returns once no submission is executing and no present
\* request is queued
wait_idle == (\A k \in Slots : ~ inflight[k]) /\ presents = { }

\* the queues and their synchronisation objects
Gpu ==
    [ sem |-> sem, acquiring |-> acquiring, submission |-> submission,
      presents |-> presents, gpu_order |-> gpu_order, fence |-> fence,
      inflight |-> inflight ]

SetGpu(g) ==
    /\ sem' = g.sem
    /\ acquiring' = g.acquiring
    /\ submission' = g.submission
    /\ presents' = g.presents
    /\ gpu_order' = g.gpu_order
    /\ fence' = g.fence
    /\ inflight' = g.inflight

AcquireNeedsReinit_ErrorOnly(r) == r = "error"

\* the match on acquire_next_image in begin_frame
AcquireNeedsReinit(r) == r # "success"

PresentNeedsReinit_ErrorOnly(r) == r = "error"

\* the match on queue_present in end_frame
PresentNeedsReinit(r) == r # "success"

NextFrameIndex_Always(index, reinit) == (index + 1) % FRAME_BUFFER_COUNT

\* the frame index end_frame leaves behind
NextFrameIndex(index, reinit) ==
    IF ~ reinit THEN (index + 1) % FRAME_BUFFER_COUNT ELSE index

BeginFrameValue_False(flag) == "Ok(false)"

\* the Ok value of begin_frame
BeginFrameValue(flag) == IF flag THEN "Ok(true)" ELSE "Ok(false)"

EndFrameValue_Surfaced(reinit_at_entry, present) ==
    IF reinit_at_entry \/ present # "success" THEN "Err" ELSE "Ok"

\* what end_frame returns: Err only when entered with need_reinit set, whatever
\* queue_present reports
EndFrameValue(reinit_at_entry, present) == IF reinit_at_entry THEN "Err" ELSE "Ok"

\* the fields create_pipeline assigns once every object has been created
CreatedPipeline ==
    [ frame_index |-> 0, image_index |-> 0, need_reinit |-> FALSE ]

RunAfterBegin_Continue(ret) == IF ret = "Err" THEN "top" ELSE "draw"

\* Exec::run on the result of begin_frame: break on Err, else update and draw
RunAfterBegin(ret) == IF ret = "Err" THEN "stopped" ELSE "draw"

\* Exec::run on the result of end_frame: break on Err, else the next iteration
RunAfterEnd(ret) == IF ret = "Err" THEN "stopped" ELSE "top"

\* Frame::new for every slot: fresh command buffer, fence created signaled
NewFences == [ k \in Slots |-> TRUE ]
NewCommandBuffers == [ k \in Slots |-> "initial" ]

\* ------------------------------------------------------------- RenderState

NORMAL == 1
ADDITIVE == 2
MULTIPLY == 3

BlendModes == { NORMAL, ADDITIVE, MULTIPLY }

\* impl Default for RenderState
RenderStateDefault ==
    [ modified            |-> TRUE,
      enable_blending     |-> TRUE,
      blend_mode          |-> NORMAL,
      backface_culling    |-> TRUE,
      frontface_clockwise |-> FALSE,
      depth_testing       |-> FALSE,
      depth_writing       |-> FALSE ]

\* every value of the struct, whose fields are public
RenderStates ==
    [ modified : BOOLEAN, enable_blending : BOOLEAN, blend_mode : BlendModes,
      backface_culling : BOOLEAN, frontface_clockwise : BOOLEAN,
      depth_testing : BOOLEAN, depth_writing : BOOLEAN ]

set_blending(rs, val) ==
    IF val # rs.enable_blending
    THEN [ rs EXCEPT !.enable_blending = val, !.modified = TRUE ]
    ELSE rs

set_blend_mode(rs, val) ==
    IF val # rs.blend_mode
    THEN [ rs EXCEPT !.blend_mode = val, !.modified = TRUE ]
    ELSE rs

set_backface_culling(rs, val) ==
    IF val # rs.backface_culling
    THEN [ rs EXCEPT !.backface_culling = val, !.modified = TRUE ]
    ELSE rs

set_frontface_clockwise(rs, val) ==
    IF val # rs.frontface_clockwise
    THEN [ rs EXCEPT !.frontface_clockwise = val, !.modified = TRUE ]
    ELSE rs

\* as written: the comparison and the assignment are on backface_culling
set_depth_testing(rs, val) ==
    IF val # rs.backface_culling
    THEN [ rs EXCEPT !.backface_culling = val, !.modified = TRUE ]
    ELSE rs

set_depth_writing(rs, val) ==
    IF val # rs.depth_writing
    THEN [ rs EXCEPT !.depth_writing = val, !.modified = TRUE ]
    ELSE rs

RenderState_copy(rs, other) ==
    set_depth_writing(
      set_depth_testing(
        set_frontface_clockwise(
          set_backface_culling(
            set_blend_mode(
              set_blending(rs, other.enable_blending),
              other.blend_mode),
            other.backface_culling),
          other.frontface_clockwise),
        other.depth_testing),
      other.depth_writing)

RenderState_invalidate(rs) == [ rs EXCEPT !.modified = TRUE ]

\* push: the state goes to the command buffer and the marker is cleared
RenderState_push(rs) == [ rs EXCEPT !.modified = FALSE ]

\* ----------------------------------------------------------------- GPU sync

\* Frame::image_available and Frame::render_finished of slot k
ImageAvailable(k) == << "image_available", k >>
RenderFinished(k) == << "render_finished", k >>

\* end_frame: the vk::SubmitInfo and the fence handed to queue_submit
SubmitInfo(k) ==
    [ wait_semaphores    |-> { ImageAvailable(k) },
      wait_dst_stage_mask |-> "COLOR_ATTACHMENT_OUTPUT",
      signal_semaphores  |-> { RenderFinished(k) },
      fence              |-> k ]

PresentInfo_NoWait(k, image) ==
    [ wait_semaphores |-> { }, image_indices |-> image ]

\* end_frame: the vk::PresentInfoKHR, which waits on the submit's signal_semaphores
PresentInfo(k, image) ==
    [ wait_semaphores |-> SubmitInfo(k).signal_semaphores, image_indices |-> image ]

\* no batch
NoSubmission == [ frame |-> 0, waits |-> { }, signals |-> { }, started |-> FALSE ]

\* The queues and their synchronisation objects are
\* g = [sem, acquiring, submission, presents, gpu_order, fence, inflight].

\* a semaphore signal operation: it satisfies the queued wait on s (the oldest,
\* should there be several), and leaves s signaled when nothing waits
signal(g, s) ==
    IF \E k \in Slots : g.inflight[k] /\ s \in g.submission[k].waits
    THEN LET k == CHOOSE k \in Slots : g.inflight[k] /\ s \in g.submission[k].waits
         IN  [ g EXCEPT !.submission[k].waits = @ \ { s } ]
    ELSE IF \E p \in g.presents : s \in p.waits
    THEN LET p == CHOOSE p \in g.presents :
                    /\ s \in p.waits
                    /\ \A q \in g.presents : s \in q.waits => p.frame <= q.frame
         IN  [ g EXCEPT !.presents = (@ \ { p }) \cup { [ p EXCEPT !.waits = @ \ { s } ] } ]
    ELSE [ g EXCEPT !.sem = @ \cup { s } ]

RECURSIVE signal_all(_, _)
signal_all(g, semaphores) ==
    IF semaphores = { } THEN g
    ELSE LET s == CHOOSE s \in semaphores : TRUE
         IN  signal_all(signal(g, s), semaphores \ { s })

\* acquire_next_image(.., frame.image_available, Fence::null()) for frame f on
\* slot k: unless it fails, the semaphore is signaled once the image is ready
acquire_next_image(acq, k, f, r) ==
    IF r # "error" THEN [ acq EXCEPT ![k] = f ] ELSE acq

\* queue_submit of frame f on slot k: the batch waits for the semaphores that
\* are not signaled yet and takes the signal of those that are
queue_submit(g, k, f, info) ==
    [ g EXCEPT !.submission[k] = [ frame   |-> f,
                                   waits   |-> info.wait_semaphores \ g.sem,
                                   signals |-> info.signal_semaphores,
                                   started |-> FALSE ],
               !.sem = @ \ info.wait_semaphores,
               !.inflight[info.fence] = TRUE ]

\* queue_present of frame f: the request waits for its semaphores, whatever
\* result the call returns
queue_present(g, f, info) ==
    [ g EXCEPT !.presents = @ \cup { [ frame |-> f,
                                       image |-> info.image_indices,
                                       waits |-> info.wait_semaphores \ g.sem ] },
               !.sem = @ \ info.wait_semaphores ]

\* the presentation engine hands over the image acquired on slot k
image_ready(g, k) ==
    signal([ g EXCEPT !.acquiring[k] = 0,
                      !.gpu_order[g.acquiring[k]] = Append(@, "acquired") ],
           ImageAvailable(k))

\* the stages before wait_dst_stage_mask run without waiting for the semaphore
gpu_start(g, k) ==
    [ g EXCEPT !.submission[k].started = TRUE,
               !.gpu_order[g.submission[k].frame] = Append(@, "vertex_work") ]

\* the batch of slot k passes its semaphore wait, runs to the end, signals its
\* semaphores and its fence
gpu_execute(g, k) ==
    signal_all([ g EXCEPT !.inflight[k] = FALSE,
                          !.fence[k] = TRUE,
                          !.submission[k] = NoSubmission,
                          !.gpu_order[g.submission[k].frame] =
                              @ \o << "executed", "render_finished" >> ],
               g.submission[k].signals)

\* the present request p is carried out
gpu_present(g, p) ==
    [ g EXCEPT !.presents = @ \ { p },
               !.gpu_order[p.frame] = Append(@, "presented") ]

\* everything the GPU and the presentation engine have to do for the frame
\* submitted on slot k, in one step
gpu_complete(g, k) ==
    LET ready == IF g.acquiring[k] # 0 THEN image_ready(g, k) ELSE g
        done == gpu_execute(gpu_start(ready, k), k)
        mine == { p \in done.presents : p.frame = g.submission[k].frame }
    IN  IF mine = { } THEN done ELSE gpu_present(done, CHOOSE p \in mine : TRUE)

\* ----------------------------------------------------------------- teardown

\* the objects of Pipeline, in the order destroy_pipeline destroys them
DestroyOrder ==
    << "frames", "frame_buffers", "render_pass", "depth_buffer", "image_views", "swapchain" >>

\* the same objects in the order create_pipeline creates them
CreateOrder ==
    << "swapchain", "image_views", "depth_buffer", "render_pass", "frame_buffers", "frames" >>

PipelineObjects == Range(DestroyOrder)

\* Pipeline::wait_idle as a device call; a pipeline under teardown is
\* [gen, log]: the generation of each object and the device calls made
device_wait_idle(p) == [ p EXCEPT !.log = Append(@, << "wait_idle", "device" >>) ]

destroy_Unguarded(p, obj) ==
    [ p EXCEPT !.gen[obj] = 0, !.log = Append(@, << "destroy", obj >>) ]

\* the destroy of one object: every handle's dispose returns at once when the
\* handle is null and nulls it after the device call; the vectors of
\* framebuffers and image views are cleared as well
destroy(p, obj) ==
    IF p.gen[obj] # 0
    THEN [ p EXCEPT !.gen[obj] = 0, !.log = Append(@, << "destroy", obj >>) ]
    ELSE p

destroy_frames(p) == destroy(device_wait_idle(p), "frames")

destroy_frame_buffers(p) == destroy(device_wait_idle(p), "frame_buffers")

destroy_pipeline_KeepSwapchain(p) ==
    destroy(destroy(destroy(
        destroy_frame_buffers(destroy_frames(device_wait_idle(p))),
        "render_pass"), "depth_buffer"), "image_views")

\* Pipeline::destroy_pipeline
destroy_pipeline(p) ==
    destroy(destroy(destroy(destroy(
        destroy_frame_buffers(destroy_frames(device_wait_idle(p))),
        "render_pass"), "depth_buffer"), "image_views"), "swapchain")

\* Pipeline::create_pipeline: the objects are created into locals one after the
\* other, each creation may fail (failed_at names the first that does), and the
\* fields are assigned only once all exist
create_pipeline(p, generation, failed_at) ==
    LET made == SubSeq(CreateOrder, 1, Min(failed_at - 1, Len(CreateOrder)))
        log == p.log \o [ i \in 1 .. Len(made) |-> << "create", made[i] >> ]
    IN  IF failed_at > Len(CreateOrder)
        THEN [ gen |-> [ o \in PipelineObjects |-> generation ], log |-> log ]
        ELSE [ p EXCEPT !.log = log ]

\* Pipeline::reinit
reinit(p, generation, failed_at) ==
    create_pipeline(destroy_pipeline(p), generation, failed_at)

\* the device calls of Material::free_descriptor_sets: the sets go with the pool
free_descriptor_sets_calls(m) ==
    IF m.descriptor_pool # Null THEN << << "destroy", "descriptor_pool" >> >> ELSE << >>

\* the device calls of Material::free_graphics_pipeline
free_graphics_pipeline_calls(m) ==
    IF m.graphics_pipeline # Null
    THEN << << "destroy", "graphics_pipeline" >>,
            << "destroy", "pipeline_layout" >>,
            << "destroy", "descriptor_set_layout" >> >>
    ELSE << >>

\* Material::dispose: the compiled objects are freed, the declarations cleared
Material_dispose(w) ==
    LET freed == free_graphics_pipeline(free_descriptor_sets(w))
    IN  [ freed EXCEPT !.m.textures = 0,
                       !.m.shaders = 0,
                       !.m.uniforms = << >>,
                       !.m.push_constant_ranges = 0 ]

\* Exec::dispose: Pipeline::dispose, the application's dispose, then
\* GlobalContext::delete, whose dispose runs Pipeline::dispose again and then
\* Materials::dispose; nothing calls Device::dispose.  x = [p, w]
Exec_dispose(x) ==
    LET first == destroy_pipeline(x.p)
        second == destroy_pipeline(first)
    IN  [ p |-> [ second EXCEPT !.log = @ \o free_descriptor_sets_calls(x.w.m)
                                          \o free_graphics_pipeline_calls(x.w.m) ],
          w |-> Material_dispose(x.w) ]

\* ------------------------------------------------------------------ Uniform

Max(a, b) == IF a >= b THEN a ELSE b

\* min_uniform_buffer_offset_alignment is a power of two on every Vulkan device
Alignments == { 2 ^ k : k \in 0 .. MaxAlignLog }

aligned_data_size_Packed(data_size, uniform_buffer_alignment) == data_size

\* Uniform::new: alignment = limits.uniform_buffer_alignment.max(4),
\* aligned_data_size = (data_size + alignment) - (data_size % alignment)
aligned_data_size(data_size, uniform_buffer_alignment) ==
    LET alignment == Max(uniform_buffer_alignment, 4)
    IN  (data_size + alignment) - (data_size % alignment)

\* UniformBuffer::new, with the buffer type and size it hands to BufferObjects::new
UniformBufferNew(size, dynamic_size) ==
    LET dynamic == dynamic_size > 0
        buffer_size == Max(size, dynamic_size)
    IN  [ dynamic      |-> dynamic,
          offset       |-> 0,
          size         |-> size,
          dynamic_size |-> dynamic_size,
          buffer_type  |-> IF dynamic THEN "DYNAMIC_UNIFORM" ELSE "UNIFORM",
          buffer_size  |-> buffer_size ]

\* Uniform::new
UniformNew(device_limits, data_size, dynamic_array_elements) ==
    LET aligned == aligned_data_size(data_size, device_limits.uniform_buffer_alignment)
        dynamic_size == IF dynamic_array_elements > 0
                        THEN aligned * (1 + dynamic_array_elements)
                        ELSE 0
    IN  [ data_size         |-> data_size,
          aligned_data_size |-> aligned,
          dynamic_size      |-> dynamic_size,
          offset            |-> 0,
          buffer            |-> UniformBufferNew(data_size, dynamic_size) ]

\* Uniform::set_offset: stores the offset and forwards it to UniformBuffer::set_offset
set_offset(u, ofs) == [ u EXCEPT !.offset = ofs, !.buffer.offset = ofs ]

\* Uniform::set_array_index
set_array_index(u, idx) == set_offset(u, idx * u.aligned_data_size)

UniformBuffer_copy_AtStart(b) == [ ofs |-> 0, len |-> b.size ]

\* UniformBuffer::copy: copy_region(frame, source_ptr, 0, self.offset, self.size),
\* which maps (dest_ofs, len) of the frame's buffer object and writes it
UniformBuffer_copy(b) == [ ofs |-> b.offset, len |-> b.size ]

\* the dynamic_offsets Material::bind_uniforms collects for the uniform; the
\* offsets of the model stay far below 2^32, where `as u32` keeps the value
uniform_dynamic_offsets(b) == IF b.dynamic THEN << b.offset >> ELSE << >>

\* UniformBuffer::get_buffer_info
get_buffer_info(b) == [ offset |-> b.offset, range |-> b.size ]

\* nothing written, bound or described yet
UniformHistoryNew ==
    /\ uniform_op = "new"
    /\ array_index = -1
    /\ last_write = [ ofs |-> -1, len |-> 0 ]
    /\ write_after = -1
    /\ bind_after = << -1 >>
    /\ dynamic_offsets = << -1 >>
    /\ buffer_info = [ offset |-> -1, range |-> 0 ]

\* ------------------------------------------------------------------ buffers

\* the values of a byte: the copies move bytes without looking at them, so two
\* values are enough to tell any two positions apart
Bytes == { 0, 1 }

\* the contents a memory of the given size can have
Contents(size) == [ 0 .. (size - 1) -> Bytes ]

\* BufferObject::new; a fresh allocation holds whatever bytes the driver left in it
BufferObjectNew(buffer_type, size, buffer_usage, memory_usage, bytes) ==
    [ buffer_type |-> buffer_type,
      size        |-> size,
      usage       |-> buffer_usage,
      memory      |-> memory_usage,
      bytes       |-> bytes,
      written     |-> "never" ]   \* how the bytes were last written (history)

\* BufferObjects::add
add(bos, buffer_object) ==
    [ bos EXCEPT !.buffer_objects = Append(@, buffer_object) ]

add_vertex_buffer(bos, bytes) ==
    add(bos, BufferObjectNew(bos.buffer_type, bos.size,
                             { "VERTEX_BUFFER", "TRANSFER_DST" },
                             { "DEVICE_LOCAL" }, bytes))

add_staging_buffer_DeviceLocal(bos, bytes) ==
    add(bos, BufferObjectNew("STAGING", bos.size,
                             { "TRANSFER_SRC" },
                             { "DEVICE_LOCAL" }, bytes))

add_staging_buffer(bos, bytes) ==
    add(bos, BufferObjectNew("STAGING", bos.size,
                             { "TRANSFER_SRC" },
                             { "HOST_VISIBLE", "HOST_COHERENT" }, bytes))

add_index_buffer(bos, bytes) ==
    add(bos, BufferObjectNew(bos.buffer_type, bos.size,
                             { "INDEX_BUFFER", "TRANSFER_DST" },
                             { "DEVICE_LOCAL" }, bytes))

add_uniform_buffer(bos, bytes) ==
    add(bos, BufferObjectNew(bos.buffer_type, bos.size,
                             { "UNIFORM_BUFFER", "TRANSFER_SRC" },
                             { "HOST_VISIBLE", "HOST_COHERENT" }, bytes))

add_shader_storage_buffer(bos, bytes) ==
    add(bos, BufferObjectNew(bos.buffer_type, bos.size,
                             { "STORAGE_BUFFER", "TRANSFER_SRC" },
                             { "HOST_VISIBLE", "HOST_COHERENT" }, bytes))

RECURSIVE add_uniform_buffers(_, _, _)
\* the `for _ in 0..num_frames` of BufferObjects::new
add_uniform_buffers(bos, mem, n) ==
    IF n = 0 THEN bos
    ELSE add_uniform_buffer(add_uniform_buffers(bos, mem, n - 1), mem[n])

BufferTypes == { "VERTEX", "INDEX", "UNIFORM", "DYNAMIC_UNIFORM", "SHADER_STORAGE" }

\* BufferObjects::new; mem[i] is the initial content of the i-th allocation
BufferObjectsNew(buffer_type, size, mem) ==
    LET empty == [ buffer_objects |-> << >>, size |-> size, buffer_type |-> buffer_type ]
    IN  CASE buffer_type = "VERTEX" ->
               add_staging_buffer(add_vertex_buffer(empty, mem[1]), mem[2])
          [] buffer_type = "INDEX" ->
               add_staging_buffer(add_index_buffer(empty, mem[1]), mem[2])
          [] buffer_type \in { "UNIFORM", "DYNAMIC_UNIFORM" } ->
               add_uniform_buffers(empty, mem, FRAME_BUFFER_COUNT)
          [] OTHER -> empty

\* DeviceMemory::map succeeds on host-visible memory
Mappable(bo) == "HOST_VISIBLE" \in bo.memory

\* BufferObject::copy_region_raw: map (dest_ofs, len), copy len bytes from
\* source_ptr + source_ofs, unmap; Err, and nothing written, when the map fails
copy_region_raw(bo, source, source_ofs, dest_ofs, len) ==
    IF Mappable(bo)
    THEN [ bo EXCEPT !.written = "map",
                     !.bytes =
             [ k \in 0 .. (bo.size - 1) |->
                 IF dest_ofs <= k /\ k < dest_ofs + len
                 THEN source[source_ofs + (k - dest_ofs)]
                 ELSE bo.bytes[k] ] ]
    ELSE bo

\* BufferObject::copy_raw
copy_raw(bo, source) == copy_region_raw(bo, source, 0, 0, bo.size)

\* BufferObject::copy_region: cmd_copy_buffer of one region from src, submitted
\* and waited for with queue_wait_idle
copy_region(bo, src, src_ofs, dest_ofs, len) ==
    [ bo EXCEPT !.written = "cmd_copy_buffer",
                !.bytes =
        [ k \in 0 .. (bo.size - 1) |->
            IF dest_ofs <= k /\ k < dest_ofs + len
            THEN src.bytes[src_ofs + (k - dest_ofs)]
            ELSE bo.bytes[k] ] ]

VertexBuffer_copy_region_FromStart(bos, source, ofs, size) ==
    LET staged == copy_region_raw(bos.buffer_objects[2], source, 0, ofs, size)
    IN  [ bos EXCEPT !.buffer_objects =
            << copy_region(bos.buffer_objects[1], staged, ofs, ofs, size), staged >> ]

\* VertexBuffer::copy_region: buffer_objects[1] is the staging buffer,
\* buffer_objects[0] the device-local one (sequences count from 1)
VertexBuffer_copy_region(bos, source, ofs, size) ==
    LET staged == copy_region_raw(bos.buffer_objects[2], source, ofs, ofs, size)
    IN  IF Mappable(bos.buffer_objects[2])
        THEN [ bos EXCEPT !.buffer_objects =
                 << copy_region(bos.buffer_objects[1], staged, ofs, ofs, size), staged >> ]
        ELSE bos

\* VertexBuffer::copy
VertexBuffer_copy(bos, source) == VertexBuffer_copy_region(bos, source, 0, bos.size)

\* IndexBuffer::copy_region
IndexBuffer_copy_region(bos, source, ofs, size) ==
    LET staged == copy_region_raw(bos.buffer_objects[2], source, ofs, ofs, size)
    IN  IF Mappable(bos.buffer_objects[2])
        THEN [ bos EXCEPT !.buffer_objects =
                 << copy_region(bos.buffer_objects[1], staged, ofs, ofs, size), staged >> ]
        ELSE bos

\* IndexBuffer::copy
IndexBuffer_copy(bos, source) == IndexBuffer_copy_region(bos, source, 0, bos.size)

\* UniformBuffer::copy_region: straight into the frame's buffer object
UniformBuffer_copy_region(bos, frame, source, src_ofs, dest_ofs, len) ==
    [ bos EXCEPT !.buffer_objects[frame + 1] =
        copy_region_raw(@, source, src_ofs, dest_ofs, len) ]

\* ShaderStorageBuffer::alloc_frame_buffer
alloc_frame_buffer(bos, bytes) == add_shader_storage_buffer(bos, bytes)

\* ShaderStorageBuffer::copy
ShaderStorageBuffer_copy(bos, frame, source) ==
    [ bos EXCEPT !.buffer_objects[frame + 1] = copy_raw(@, source) ]

\* ------------------------------------------- Material, compilation in detail

\* The material with what its uniforms, descriptor pool and descriptor sets
\* hold: c = [uniforms, textures, invalidated, descriptor_pool, pool,
\* descriptor_set_layout, bindings, pipeline_layout, graphics_pipeline,
\* descriptor_sets]; uniforms[i] = [dynamic, offset] is the UniformBuffer
\* declared i-th.

DescriptorTypes == { "UNIFORM_BUFFER", "UNIFORM_BUFFER_DYNAMIC", "COMBINED_IMAGE_SAMPLER" }

NoDescriptors == [ t \in DescriptorTypes |-> 0 ]

\* Material::new, in detail
MaterialDetailNew ==
    [ uniforms |-> << >>,
      textures |-> 0,
      invalidated |-> TRUE,
      descriptor_pool |-> Null,
      pool |-> [ sizes |-> NoDescriptors, max_sets |-> 0, used |-> NoDescriptors, sets |-> 0 ],
      descriptor_set_layout |-> Null,
      bindings |-> << >>,
      pipeline_layout |-> Null,
      graphics_pipeline |-> Null,
      descriptor_sets |-> << >> ]

\* the descriptor type of a uniform
descriptor_type(u) ==
    IF u.dynamic THEN "UNIFORM_BUFFER_DYNAMIC" ELSE "UNIFORM_BUFFER"

\* create_graphics_pipeline: descriptor_set_layout_bindings, one descriptor each,
\* the uniforms in declared order, then the textures
descriptor_set_layout_bindings(c) ==
    [ i \in 1 .. (Len(c.uniforms) + c.textures) |->
        IF i <= Len(c.uniforms) THEN descriptor_type(c.uniforms[i])
        ELSE "COMBINED_IMAGE_SAMPLER" ]

\* the descriptors of each type one set of the layout takes
set_descriptors(bindings) ==
    [ t \in DescriptorTypes |-> Cardinality({ i \in 1 .. Len(bindings) : bindings[i] = t }) ]

pool_sizes_Scaled(c, num_frames) ==
    [ t \in DescriptorTypes |-> set_descriptors(descriptor_set_layout_bindings(c))[t] * num_frames ]

\* create_descriptor_sets: pool_sizes, descriptor_count = num_frames for each
\* type the material declares at all
pool_sizes(c, num_frames) ==
    LET num_static_uniforms ==
            Cardinality({ i \in 1 .. Len(c.uniforms) : ~ c.uniforms[i].dynamic })
        num_dynamic_uniforms ==
            Cardinality({ i \in 1 .. Len(c.uniforms) : c.uniforms[i].dynamic })
        num_textures == c.textures
    IN  [ t \in DescriptorTypes |->
            IF t = "UNIFORM_BUFFER" /\ num_static_uniforms > 0 THEN num_frames
            ELSE IF t = "UNIFORM_BUFFER_DYNAMIC" /\ num_dynamic_uniforms > 0 THEN num_frames
            ELSE IF t = "COMBINED_IMAGE_SAMPLER" /\ num_textures > 0 THEN num_frames
            ELSE 0 ]

\* the pool has room for one more set of the layout
PoolHasRoom(c) ==
    /\ c.pool.sets < c.pool.max_sets
    /\ \A t \in DescriptorTypes :
           c.pool.used[t] + set_descriptors(c.bindings)[t] <= c.pool.sizes[t]

create_descriptor_set_Reused(c, frame) ==
    [ c EXCEPT !.descriptor_sets = << [ frame |-> frame, writes |-> c.bindings ] >> ]

\* create_descriptor_set(frame_index): allocate_descriptor_sets, then one
\* update_descriptor_sets per uniform and per texture
create_descriptor_set(c, frame) ==
    [ c EXCEPT !.pool.sets = @ + 1,
               !.pool.used = [ t \in DescriptorTypes |-> @[t] + set_descriptors(c.bindings)[t] ],
               !.descriptor_sets =
                   Append(@, [ frame |-> frame, writes |-> c.bindings ]) ]

\* the frames of create_descriptor_sets' loop from the given one on; the driver
\* may refuse a set the pool has no room for, and the unwrap then panics
RECURSIVE create_descriptor_sets_from(_, _, _, _)
create_descriptor_sets_from(r, frame, num_frames, lenient) ==
    IF frame >= num_frames \/ r.panicked THEN r
    ELSE IF ~ PoolHasRoom(r.m) /\ ~ lenient
    THEN [ r EXCEPT !.panicked = TRUE,
                    !.calls = Append(@, << "allocate_descriptor_sets", "out_of_pool_memory" >>) ]
    ELSE create_descriptor_sets_from(
             [ r EXCEPT !.m = create_descriptor_set(r.m, frame),
                        !.calls = Append(@, << "allocate_descriptor_sets", frame >>) ],
             frame + 1, num_frames, lenient)

\* Material::create_descriptor_sets on r = [m, calls, panicked]
create_descriptor_sets_detail(r, num_frames, lenient) ==
    IF r.m.descriptor_set_layout = Null THEN r
    ELSE create_descriptor_sets_from(
             [ r EXCEPT !.m.descriptor_pool = << "descriptor_pool", 1, 0 >>,
                        !.m.pool = [ sizes |-> pool_sizes(r.m, num_frames),
                                     max_sets |-> num_frames,
                                     used |-> NoDescriptors,
                                     sets |-> 0 ],
                        !.m.descriptor_sets = << >>,
                        !.calls = Append(@, << "create", "descriptor_pool" >>) ],
             0, num_frames, lenient)

\* Material::create_graphics_pipeline
create_graphics_pipeline_detail(r) ==
    LET bindings == descriptor_set_layout_bindings(r.m)
    IN  [ r EXCEPT !.m.bindings = bindings,
                   !.m.descriptor_set_layout =
                       IF Len(bindings) > 0 THEN << "descriptor_set_layout", 1, 0 >> ELSE Null,
                   !.m.pipeline_layout = << "pipeline_layout", 1, 0 >>,
                   !.m.graphics_pipeline = << "graphics_pipeline", 1, 0 >>,
                   !.calls = @ \o (IF Len(bindings) > 0
                                   THEN << << "create", "descriptor_set_layout" >> >>
                                   ELSE << >>)
                               \o << << "create", "pipeline_layout" >>,
                                     << "create", "graphics_pipeline" >> >> ]

\* Material::free_descriptor_sets
free_descriptor_sets_detail(r) ==
    IF r.m.descriptor_pool # Null
    THEN [ r EXCEPT !.m.descriptor_sets = << >>,
                    !.m.descriptor_pool = Null,
                    !.calls = @ \o free_descriptor_sets_calls(r.m) ]
    ELSE r

\* Material::free_graphics_pipeline
free_graphics_pipeline_detail(r) ==
    IF r.m.graphics_pipeline # Null
    THEN [ r EXCEPT !.m.graphics_pipeline = Null,
                    !.m.pipeline_layout = Null,
                    !.m.descriptor_set_layout = Null,
                    !.calls = @ \o free_graphics_pipeline_calls(r.m) ]
    ELSE r

validate_pipeline_detail_CreateFirst(r, num_frames, lenient) ==
    IF ~ r.m.invalidated THEN r
    ELSE free_graphics_pipeline_detail(
           free_descriptor_sets_detail(
             create_descriptor_sets_detail(
               create_graphics_pipeline_detail([ r EXCEPT !.m.invalidated = FALSE ]),
               num_frames, lenient)))

\* Material::validate_pipeline
validate_pipeline_detail(r, num_frames, lenient) ==
    IF ~ r.m.invalidated THEN r
    ELSE create_descriptor_sets_detail(
           create_graphics_pipeline_detail(
             free_graphics_pipeline_detail(
               free_descriptor_sets_detail([ r EXCEPT !.m.invalidated = FALSE ]))),
           num_frames, lenient)

\* Material::bind_pipeline
bind_pipeline_detail(r) ==
    [ r EXCEPT !.calls = Append(@, << "cmd_bind_pipeline", r.m.graphics_pipeline >>) ]

\* RenderState::push
push_detail(r) ==
    [ r EXCEPT !.calls = Append(@, << "push", "render_state" >>) ]

collect_dynamic_offsets_All(uniforms) ==
    [ i \in 1 .. Len(uniforms) |-> uniforms[i].offset ]

\* the loop of bind_uniforms that collects dynamic_offsets
RECURSIVE collect_dynamic_offsets(_)
collect_dynamic_offsets(uniforms) ==
    IF uniforms = << >> THEN << >>
    ELSE (IF Head(uniforms).dynamic THEN << Head(uniforms).offset >> ELSE << >>)
         \o collect_dynamic_offsets(Tail(uniforms))

\* Material::bind_uniforms for the frame slot frame
bind_uniforms_detail(r, frame) ==
    LET offsets == collect_dynamic_offsets(r.m.uniforms)
    IN  IF Len(r.m.descriptor_sets) > frame
        THEN [ r EXCEPT !.calls =
                   Append(@, << "cmd_bind_descriptor_sets",
                                r.m.descriptor_sets[frame + 1].frame,
                                offsets >>) ]
        ELSE r

\* Material::bind; a panic in validate_pipeline ends it
bind_detail(c, frame, num_frames, lenient) ==
    LET validated == validate_pipeline_detail(
                         [ m |-> c, calls |-> << << "validate_pipeline", c.invalidated >> >>,
                           panicked |-> FALSE ],
                         num_frames, lenient)
    IN  IF validated.panicked THEN validated
        ELSE bind_uniforms_detail(push_detail(bind_pipeline_detail(validated)), frame)

\* a new material in detail, nothing bound yet
DetailNew ==
    /\ detail = MaterialDetailNew
    /\ detail_calls = << >>
    /\ detail_frame = 0
    /\ detail_panicked = FALSE

\* ---------------------------------------------- Uniform::update, per slot

\* Uniform::update: copy into the buffer object of the current frame
update_slots(current) == { current }

\* Uniform::update_all: copy into the buffer object of every frame of the
\* pipeline
update_all_slots(current) == Slots

\* nothing written yet
HostWriteNew == host_write = [ call |-> "none", slots |-> { }, in_flight |-> { } ]

\* -------------------------------------------------------------- VertexQueue

\* the values of usize
Usize == 0 .. (2 ^ UsizeBits - 1)

\* the two builds: overflow checks on (debug) or off (release)
Builds == { "debug", "release" }

\* the values a pushed quad can have; 0 is Vertex::new()
QuadValues == { 1, 2 }

\* VertexQueue::new(capacity)
VertexQueueNew(capacity) ==
    [ capacity |-> capacity,
      reserved |-> 0,
      modified |-> FALSE,
      count    |-> 0,
      vertices |-> [ i \in 1 .. capacity |-> 0 ],
      panicked |-> FALSE ]

\* a + b in usize: an overflow panics in a debug build and wraps in a release
\* build
usize_add(a, b, build) ==
    IF a + b < 2 ^ UsizeBits THEN [ value |-> a + b, panicked |-> FALSE ]
    ELSE IF build = "debug" THEN [ value |-> 0, panicked |-> TRUE ]
    ELSE [ value |-> (a + b) % (2 ^ UsizeBits), panicked |-> FALSE ]

\* VertexQueue::begin
VertexQueue_begin(q) == [ q EXCEPT !.count = 0 ]

\* VertexQueue::clear
VertexQueue_clear(q) == [ q EXCEPT !.count = 0, !.reserved = 0 ]

\* VertexQueue::reserve(num_indices)
VertexQueue_reserve(q, num_indices, build) ==
    IF q.count > 0 THEN [ q EXCEPT !.panicked = TRUE ]
    ELSE LET asked == usize_add(q.count + q.reserved, num_indices, build)
             grown == usize_add(q.reserved, num_indices, build)
         IN  IF asked.panicked \/ asked.value > q.capacity
             THEN [ q EXCEPT !.panicked = TRUE ]
             ELSE IF grown.panicked THEN [ q EXCEPT !.panicked = TRUE ]
             ELSE [ q EXCEPT !.reserved = grown.value ]

\* VertexQueue::store(index, ...): the set_* calls write the quad
VertexQueue_store(q, index, quad) ==
    IF index >= q.capacity THEN [ q EXCEPT !.panicked = TRUE ]
    ELSE [ q EXCEPT !.vertices[index + 1] = quad, !.modified = TRUE ]

\* VertexQueue::push: store at count + reserved, then count += 1
VertexQueue_push(q, quad) ==
    LET stored == VertexQueue_store(q, q.count + q.reserved, quad)
    IN  IF stored.panicked THEN stored ELSE [ stored EXCEPT !.count = @ + 1 ]

\* VertexBuffer::copy_region(vertex_data, 0, size of num quads) on the buffer:
\* through the staging buffer into the device-local buffer, at once
VertexQueue_upload(buffer, vertices, num) ==
    [ i \in 1 .. Len(buffer) |-> IF i <= num THEN vertices[i] ELSE buffer[i] ]

\* VertexQueue::update on x = [q, buffer]
VertexQueue_update(x) ==
    LET num == x.q.count + x.q.reserved
    IN  IF ~ x.q.modified \/ num = 0 THEN x
        ELSE [ q |-> [ x.q EXCEPT !.modified = FALSE ],
               buffer |-> VertexQueue_upload(x.buffer, x.q.vertices, num) ]

\* VertexQueue::draw on x = [q, buffer, draws]: update, then cmd_draw_indexed
\* of num * 6 indices from index 0 is recorded
VertexQueue_draw(x) ==
    LET updated == VertexQueue_update([ q |-> x.q, buffer |-> x.buffer ])
        num == x.q.count + x.q.reserved
    IN  [ q |-> updated.q,
          buffer |-> updated.buffer,
          draws |-> IF num = 0 THEN x.draws
                    ELSE Append(x.draws, [ num |-> num,
                                           pushed |-> SubSeq(x.q.vertices, 1, num) ]) ]

\* the queue submits the frame: each recorded draw reads its quads from the
\* device-local buffer as it is then
vertices_read(buffer, draws) ==
    [ d \in 1 .. Len(draws) |->
        [ read |-> SubSeq(buffer, 1, draws[d].num), pushed |-> draws[d].pushed ] ]

\* a queue of capacity 1 before it is created anew by an Init
VertexQueueFresh ==
    /\ vq = VertexQueueNew(1)
    /\ vq_buffer = << 0 >>
    /\ vq_draws = << >>
    /\ vq_rendered = << >>
    /\ vq_call = [ name |-> "new", count |-> 0, reserved |-> 0, exceeds |-> FALSE ]

\* ---------------------------------------------------- application mutex

\* Exec::new: the application in its mutex, Tasks::build with the same mutex;
\* Tasks::start has spawned the task threads
CallbacksNew ==
    /\ app_mutex = -1
    /\ main_cb = [ at |-> "idle", cb |-> "none" ]
    /\ task_cb = [ i \in 1 .. MaxTasks |-> "start_wait" ]

\* -------------------------------------------------------------------- Tasks

TaskIds == 1 .. MaxTasks

\* Task::build for every task: no thread, the flag false
TasksNew ==
    /\ task_handle = [ i \in TaskIds |-> "none" ]
    /\ task_running = [ i \in TaskIds |-> FALSE ]
    /\ worker_pc = [ i \in TaskIds |-> "none" ]
    /\ running_flag = [ i \in TaskIds |-> FALSE ]
    /\ caller = [ op |-> "start", i |-> 1 ]

\* the loops of Tasks::start and Tasks::stop: the call that follows the one
\* on task i
next_call(op, i, last) ==
    IF i < MaxTasks THEN [ op |-> op, i |-> i + 1 ] ELSE [ op |-> last, i |-> 1 ]

\* the worker of task i leaves its loop at its next check whatever its
\* runnable answers, or has left it
worker_leaves(i) ==
    \/ worker_pc[i] \in { "exit", "done", "joined" }
    \/ worker_pc[i] \in { "check", "step" } /\ ~ task_running[i]

\* ------------------------------------------------------------------- Device

REQUIRE_EXTENDED_DYNAMIC_STATE == TRUE
REQUIRE_EXTENDED_DYNAMIC_STATE3 == FALSE

\* the sequences over S of length up to n
Seqs(S, n) == UNION { [ 1 .. k -> S ] : k \in 0 .. n }

DeviceTypes == { "DISCRETE_GPU", "INTEGRATED_GPU", "CPU" }

ExtensionNames ==
    { "VK_KHR_swapchain", "VK_EXT_extended_dynamic_state",
      "VK_EXT_extended_dynamic_state3" }

\* required_device_extension_names
required_device_extension_names ==
    { "VK_KHR_swapchain" }
    \cup (IF REQUIRE_EXTENDED_DYNAMIC_STATE
          THEN { "VK_EXT_extended_dynamic_state" } ELSE { })
    \cup (IF REQUIRE_EXTENDED_DYNAMIC_STATE3
          THEN { "VK_EXT_extended_dynamic_state3" } ELSE { })

\* the format create_physical_device looks for
PreferredFormat == [ format |-> "B8G8R8A8_SRGB", color_space |-> "SRGB_NONLINEAR" ]

SurfaceFormats ==
    { PreferredFormat,
      [ format |-> "B8G8R8A8_SRGB", color_space |-> "EXTENDED_SRGB_LINEAR" ],
      [ format |-> "R8G8B8A8_UNORM", color_space |-> "SRGB_NONLINEAR" ] }

\* what get_physical_device_surface_present_modes can return: FIFO is always there
PresentModeSets == { modes \cup { "FIFO" } : modes \in SUBSET { "IMMEDIATE", "MAILBOX" } }

\* a queue family: its GRAPHICS flag and get_physical_device_surface_support
QueueFamilies == [ graphics : BOOLEAN, present : BOOLEAN ]

\* what the driver reports of one adapter
Adapters ==
    [ device_type     : DeviceTypes,
      extensions      : SUBSET ExtensionNames,
      surface_formats : Seqs(SurfaceFormats, MaxFormats),
      present_modes   : PresentModeSets,
      queue_families  : Seqs(QueueFamilies, MaxFamilies) ]

\* the device_type test of the device loop
suitable_type(properties) ==
    ~ (properties.device_type # "DISCRETE_GPU" /\ properties.device_type # "INTEGRATED_GPU")

\* the required-extension loop: every required name is found among the device's
has_required_extensions(device_extension_properties) ==
    \A required_name \in required_device_extension_names :
        \E device_extension \in device_extension_properties :
            required_name = device_extension

find_surface_format_Fallback(surface_formats) ==
    IF \E i \in 1 .. Len(surface_formats) : surface_formats[i] = PreferredFormat
    THEN (CHOOSE i \in 1 .. Len(surface_formats) :
            /\ surface_formats[i] = PreferredFormat
            /\ \A j \in 1 .. (i - 1) : surface_formats[j] # PreferredFormat) - 1
    ELSE IF Len(surface_formats) > 0 THEN 0 ELSE -1

\* the surface-format loop: index (from 0) of the first B8G8R8A8_SRGB /
\* SRGB_NONLINEAR entry, -1 when there is none
RECURSIVE find_surface_format_from(_, _)
find_surface_format_from(surface_formats, i) ==
    IF i > Len(surface_formats) THEN -1
    ELSE IF /\ surface_formats[i].format = "B8G8R8A8_SRGB"
            /\ surface_formats[i].color_space = "SRGB_NONLINEAR"
         THEN i - 1
         ELSE find_surface_format_from(surface_formats, i + 1)

find_surface_format(surface_formats) == find_surface_format_from(surface_formats, 1)

\* the present-mode loop
mail_box_mode_support(device_present_modes) == "MAILBOX" \in device_present_modes

\* the queue-family loop from family i (from 1) on, with the indices found so far
RECURSIVE find_queue_families_from(_, _, _, _)
find_queue_families_from(queue_families, i, graphics_family_index, present_family_index) ==
    IF i > Len(queue_families)
    THEN [ graphics |-> graphics_family_index, present |-> present_family_index ]
    ELSE LET g == IF graphics_family_index = -1 /\ queue_families[i].graphics
                  THEN i - 1 ELSE graphics_family_index
             p == IF present_family_index = -1 /\ queue_families[i].present
                  THEN i - 1 ELSE present_family_index
         IN  IF g # -1 /\ p # -1
             THEN [ graphics |-> g, present |-> p ]
             ELSE find_queue_families_from(queue_families, i + 1, g, p)

find_queue_families(queue_families) == find_queue_families_from(queue_families, 1, -1, -1)

\* one pass of the device loop over adapter a, the n-th enumerated (from 0):
\* the PhysicalDeviceInfo it returns, or "continue"
examine_device(a, n) ==
    LET found_swap_space_surface_format == find_surface_format(a.surface_formats)
        families == find_queue_families(a.queue_families)
    IN  IF ~ suitable_type(a) THEN [ continue |-> TRUE ]
        ELSE IF ~ has_required_extensions(a.extensions) THEN [ continue |-> TRUE ]
        ELSE IF found_swap_space_surface_format < 0 THEN [ continue |-> TRUE ]
        ELSE IF families.graphics = -1 \/ families.present = -1 THEN [ continue |-> TRUE ]
        ELSE [ continue |-> FALSE,
               obj |-> n,
               graphics_family_index |-> families.graphics,
               present_family_index |-> families.present,
               mail_box_mode_support |-> mail_box_mode_support(a.present_modes),
               surface_format |-> a.surface_formats[found_swap_space_surface_format + 1] ]

\* DeviceFeatures::default
DeviceFeaturesDefault == [ dynamic_state |-> FALSE, dynamic_state_3 |-> FALSE ]

\* what get_physical_device_features2 can say of a device
ReportedFeatures == [ extended_dynamic_state : BOOLEAN, extended_dynamic_state3 : BOOLEAN ]

\* get_physical_device_features2 over the p_next chain create_logical_device
\* builds: a structure that is not chained keeps its default, FALSE
get_physical_device_features2(reported) ==
    [ extended_dynamic_state |-> reported.extended_dynamic_state,
      extended_dynamic_state3_color_blend_enable |->
          IF REQUIRE_EXTENDED_DYNAMIC_STATE3
          THEN reported.extended_dynamic_state3
          ELSE FALSE ]

\* create_logical_device on a device that reports the given features
create_logical_device(reported) ==
    LET queried == get_physical_device_features2(reported)
        with_state ==
            [ DeviceFeaturesDefault EXCEPT !.dynamic_state = TRUE ]
    IN  IF ~ queried.extended_dynamic_state
        THEN [ status |-> "err", reported |-> reported,
               device_features |-> DeviceFeaturesDefault ]
        ELSE IF REQUIRE_EXTENDED_DYNAMIC_STATE3
        THEN IF queried.extended_dynamic_state3_color_blend_enable
             THEN [ status |-> "ok", reported |-> reported,
                    device_features |-> [ with_state EXCEPT !.dynamic_state_3 = TRUE ] ]
             ELSE [ status |-> "err", reported |-> reported,
                    device_features |-> with_state ]
        ELSE [ status |-> "ok", reported |-> reported, device_features |-> with_state ]

\* surface_capabilities.min_image_count and max_image_count
SurfaceCapabilities == [ min_image_count : 1 .. ImageCount, max_image_count : 0 .. ImageCount ]

present_mode_Uncapped(device) ==
    IF device.mail_box_mode_support THEN "MAILBOX" ELSE "IMMEDIATE"

\* SwapChain::new: the present mode
present_mode(device) ==
    IF device.mail_box_mode_support THEN "MAILBOX" ELSE "FIFO"

SwapChainNew_Renegotiate(device, surface_capabilities, first_format) ==
    [ format |-> first_format,
      image_count |-> surface_capabilities.min_image_count + 1,
      present_mode |-> present_mode(device) ]

\* SwapChain::new on the selected device, whatever format the surface reports
\* first now
SwapChainNew(device, surface_capabilities, first_format) ==
    LET image_count == surface_capabilities.min_image_count + 1
    IN  [ format |-> device.surface_format,
          image_count |->
              IF /\ surface_capabilities.max_image_count > 0
                 /\ image_count > surface_capabilities.max_image_count
              THEN surface_capabilities.max_image_count
              ELSE image_count,
          present_mode |-> present_mode(device) ]

\* Pipeline::create_render_pass: the format of the colour attachment
create_render_pass_format(swapchain_info) == swapchain_info.format.format

\* no swapchain yet
NoSwapChain == [ format |-> PreferredFormat, image_count |-> 0, present_mode |-> "none" ]

\* the state before Device::new
DeviceFixed ==
    /\ device_count = 0
    /\ physical = [ status |-> "searching", index |-> 0, info |-> [ continue |-> TRUE ] ]
    /\ examined = [ skipped_eligible |-> FALSE, selected_eligible |-> FALSE,
                    present_modes |-> { }, families_match |-> FALSE ]
    /\ logical = [ status |-> "none", reported |-> [ extended_dynamic_state |-> FALSE,
                                                     extended_dynamic_state3 |-> FALSE ],
                   device_features |-> DeviceFeaturesDefault ]
    /\ swapchain = NoSwapChain
    /\ render_pass_format = "UNDEFINED"
    /\ surface_now = PreferredFormat
    /\ rebuilds = 0

\* ------------------------------------------------- Material, blend state

NoBlend == [ enable |-> FALSE, mode |-> -1, dynamic |-> FALSE ]

\* Material::new as far as blending goes: not compiled
MaterialBlendNew ==
    [ render_state |-> RenderStateDefault, invalidated |-> TRUE, baked |-> NoBlend ]

\* Material::create_graphics_pipeline: color_blend_attachment from the render
\* state, the blend state dynamic when the device has dynamic state 3
create_graphics_pipeline_blend(m, features) ==
    [ m EXCEPT !.baked = [ enable  |-> m.render_state.enable_blending,
                           mode    |-> m.render_state.blend_mode,
                           dynamic |-> features.dynamic_state_3 ] ]

\* Material::validate_pipeline: rebuild only when invalidated
validate_pipeline_blend(m, features) ==
    IF ~ m.invalidated THEN m
    ELSE create_graphics_pipeline_blend([ m EXCEPT !.invalidated = FALSE ], features)

\* RenderState::push: cmd_set_color_blend_enable and
\* cmd_set_color_blend_equation only with a dynamic_state_device
pushed_blend(rs, features) ==
    IF features.dynamic_state_3
    THEN [ enable |-> rs.enable_blending, mode |-> rs.blend_mode, set |-> TRUE ]
    ELSE [ enable |-> FALSE, mode |-> -1, set |-> FALSE ]

\* the blend state of a draw: the dynamic values where the bound pipeline
\* declares the blend state dynamic, what the pipeline was built with otherwise
blend_in_effect(baked, pushed) ==
    IF baked.dynamic /\ pushed.set
    THEN [ enable |-> pushed.enable, mode |-> pushed.mode ]
    ELSE [ enable |-> baked.enable, mode |-> baked.mode ]

\* the devices create_logical_device accepts
AcceptedFeatures ==
    { create_logical_device(reported).device_features :
        reported \in { r \in ReportedFeatures : create_logical_device(r).status = "ok" } }

BlendNew ==
    /\ blend = MaterialBlendNew
    /\ blend_features = DeviceFeaturesDefault
    /\ blend_drawn = [ enable |-> FALSE, mode |-> -1 ]
    /\ blend_op = "new"

\* ------------------------------------------------------------------- state

\* Exec::new: the pipeline, the frames and the default material as constructed
ExecNew ==
    /\ pc = "init"
    /\ frames = 0
    /\ begin_ret = "none"
    /\ end_ret = "none"
    /\ frame_index = 0
    /\ image_index = 0
    /\ need_reinit = FALSE
    /\ reinitialized = FALSE
    /\ pipeline_objects = "live"
    /\ render_pass = 0
    /\ fence = NewFences
    /\ cmd = NewCommandBuffers
    /\ inflight = [ k \in Slots |-> FALSE ]
    /\ pipeline_active = FALSE
    /\ material = MaterialNew
    /\ gpu_objects = { }
    /\ handle_seq = 0
    /\ samplers = 0
    /\ bound = [ pipeline |-> Null, set |-> Null ]
    /\ adds = 0
    /\ last_acquire = "none"
    /\ last_present = "none"
    /\ prev_present = "none"
    /\ call_destroys = 0
    /\ call_creates = 0
    /\ call_acquires = 0
    /\ rebuild_failed = FALSE
    /\ late_rebuild = FALSE
    /\ end_count = 0
    /\ entry_flag = FALSE
    /\ overlap = FALSE
    /\ abort_touched = FALSE
    /\ compiles = 0
    /\ binds = 0
    /\ last_op = "new"
    /\ clean_change = FALSE
    /\ add_touched = FALSE
    /\ stale_kept = FALSE
    /\ pipeline_gen = [ o \in PipelineObjects |-> 1 ]
    /\ old_gen = [ o \in PipelineObjects |-> 1 ]
    /\ event_log = << >>
    /\ disposed = FALSE
    /\ sem = { }
    /\ acquiring = [ k \in Slots |-> 0 ]
    /\ submission = [ k \in Slots |-> NoSubmission ]
    /\ presents = { }
    /\ gpu_order = [ f \in 1 .. MaxFrames |-> << >> ]

\* the uniform the run loop is checked with
UniformFixed ==
    /\ limits = [ uniform_buffer_alignment |-> 4 ]
    /\ array_elements = 0
    /\ uniform = UniformNew(limits, 4, 0)
    /\ UniformHistoryNew

\* the vertex buffer the run loop is checked with
BufferFixed ==
    /\ buffer_objects = BufferObjectsNew("VERTEX", 1, [ i \in 1 .. 2 |-> [ k \in { 0 } |-> 0 ] ])
    /\ buffer_op = [ name |-> "new", ofs |-> 0, len |-> 0 ]
    /\ upload_lost = FALSE

\* Material::new: render_state is RenderState::default()
RenderStateNew ==
    /\ render_state = RenderStateDefault
    /\ rs_before = RenderStateDefault
    /\ rs_call = [ name |-> "default", val |-> FALSE ]

Init ==
    /\ ExecNew
    /\ UniformFixed
    /\ BufferFixed
    /\ RenderStateNew
    /\ DeviceFixed
    /\ DetailNew
    /\ TasksNew
    /\ CallbacksNew
    /\ BlendNew
    /\ VertexQueueFresh
    /\ HostWriteNew

\* ------------------------------------------------------- material actions

\* the application may declare bindings while it is set up and from its
\* update/draw callbacks
MayAdd == pc \in { "init", "draw" } /\ adds < MaxAdds

Added(w, op) ==
    /\ Store(w)
    /\ adds' = adds + 1
    /\ compiles' = 0
    /\ binds' = 0
    /\ last_op' = op
    /\ add_touched' = (\/ add_touched
                       \/ ~ w.m.invalidated
                       \/ Compiled(w.m) # Compiled(material)
                       \/ w.objs # gpu_objects)
    /\ UNCHANGED << clean_change, stale_kept >>
    /\ UNCHANGED << pc, frames, begin_ret, end_ret, reinitialized, inflight,
                    pipeline_active, pipeline_vars, history_vars >>
    /\ UNCHANGED teardown_vars
    /\ UNCHANGED sync_vars
    /\ UNCHANGED aside_vars

AddShader ==
    /\ MayAdd
    /\ samplers' = samplers
    /\ Added(add_shader(World), "add_shader")

AddPushConstants ==
    /\ MayAdd
    /\ samplers' = samplers
    /\ Added(add_push_constants(World), "add_push_constants")

AddUniform ==
    /\ MayAdd
    /\ samplers' = samplers
    /\ \E dynamic \in BOOLEAN : Added(add_uniform(World, dynamic), "add_uniform")

\* Texture::get_binding creates the sampler of the binding
AddTexture ==
    /\ MayAdd
    /\ samplers' = samplers + 1
    /\ Added(add_texture(World), "add_texture")

\* the history of a bind()/compile() call that turned World into w
Bound(w, op) ==
    /\ Store(w)
    /\ compiles' = IF w.seq # handle_seq THEN Min(compiles + 1, 2) ELSE compiles
    /\ binds' = Min(binds + 1, 2)
    /\ last_op' = op
    /\ clean_change' = (\/ clean_change
                        \/ /\ ~ material.invalidated
                           /\ \/ Compiled(w.m) # Compiled(material)
                              \/ w.objs # gpu_objects)
    /\ stale_kept' = (\/ stale_kept
                      \/ /\ material.invalidated
                         /\ \/ Held(w.m) \cap Held(material) # { }
                            \/ w.objs \cap gpu_objects # { }
                            \/ w.objs # Held(w.m))
    /\ UNCHANGED << adds, samplers, add_touched >>

\* Exec::init: Materials::compile, then the run loop starts
ExecInit ==
    /\ pc = "init"
    /\ pc' = "top"
    /\ Bound(validate_pipeline(World), "compile")
    /\ UNCHANGED << frames, begin_ret, end_ret, reinitialized, inflight,
                    pipeline_active, pipeline_vars, history_vars >>
    /\ UNCHANGED teardown_vars
    /\ UNCHANGED sync_vars
    /\ UNCHANGED aside_vars

\* Renderer::set_material from on_draw: binds, as the pipeline is active
SetMaterial ==
    /\ pc = "draw"
    /\ pipeline_active
    /\ Bound(bind(World, frame_index), "bind")
    /\ UNCHANGED << pc, frames, begin_ret, end_ret, reinitialized, inflight,
                    pipeline_active, pipeline_vars, history_vars >>
    /\ UNCHANGED teardown_vars
    /\ UNCHANGED sync_vars
    /\ UNCHANGED aside_vars

\* ---------------------------------------------------------- Exec::run loop

\* Window::process_events: false once the window is closed
ProcessEvents ==
    /\ pc = "top"
    /\ \/ /\ frames < MaxFrames
          /\ pc' = "begin"
          /\ frames' = frames + 1
       \/ /\ pc' = "stopped"
          /\ frames' = frames
    /\ UNCHANGED << begin_ret, end_ret, reinitialized, inflight, pipeline_active,
                    pipeline_vars, material_vars, history_vars >>
    /\ UNCHANGED teardown_vars
    /\ UNCHANGED sync_vars
    /\ UNCHANGED aside_vars

\* Pipeline::begin_frame up to the fence wait: the deferred reinit.
\* reinit = destroy_pipeline (which waits for the device to be idle), then
\* create_pipeline, whose error is returned with `?`.
BeginFrameReinit ==
    /\ pc = "begin"
    /\ entry_flag' = need_reinit
    /\ call_acquires' = 0
    /\ late_rebuild' = (late_rebuild \/ (need_reinit /\ rebuild_failed))
    /\ old_gen' = pipeline_gen
    /\ IF need_reinit
       THEN /\ wait_idle
            /\ call_destroys' = 1
            /\ call_creates' = 1
            /\ \E failed_at \in 1 .. (Len(CreateOrder) + 1) :
                 LET created == failed_at > Len(CreateOrder)
                     rebuilt == reinit([ gen |-> pipeline_gen, log |-> << >> ],
                                       render_pass + 2, failed_at)
                 IN
                 /\ pipeline_gen' = rebuilt.gen
                 /\ event_log' = rebuilt.log
                 /\ sem' = { }
                 /\ acquiring' = [ k \in Slots |-> 0 ]
                 /\ submission' = [ k \in Slots |-> NoSubmission ]
                 /\ UNCHANGED << presents, gpu_order >>
                 /\ IF created
                    THEN /\ pipeline_objects' = "live"
                         /\ render_pass' = render_pass + 1
                         /\ fence' = NewFences
                         /\ cmd' = NewCommandBuffers
                         /\ frame_index' = CreatedPipeline.frame_index
                         /\ image_index' = CreatedPipeline.image_index
                         /\ need_reinit' = CreatedPipeline.need_reinit
                         /\ reinitialized' = TRUE
                         /\ end_count' = 0
                         /\ pc' = "wait"
                         /\ UNCHANGED << begin_ret, rebuild_failed, pipeline_active >>
                    ELSE /\ pipeline_objects' = "destroyed"
                         /\ fence' = [ k \in Slots |-> FALSE ]
                         /\ cmd' = [ k \in Slots |-> "freed" ]
                         /\ begin_ret' = "Err"
                         /\ rebuild_failed' = TRUE
                         /\ reinitialized' = FALSE
                         /\ pc' = RunAfterBegin("Err")
                         /\ UNCHANGED << pipeline_active, render_pass, frame_index,
                                         image_index, need_reinit, end_count >>
       ELSE /\ call_destroys' = 0
            /\ call_creates' = 0
            /\ reinitialized' = FALSE
            /\ pc' = "wait"
            /\ event_log' = << >>
            /\ UNCHANGED << begin_ret, pipeline_vars, rebuild_failed, end_count,
                            pipeline_active, pipeline_gen, sync_vars >>
    /\ UNCHANGED << frames, end_ret, inflight, material_vars, last_acquire,
                    last_present, prev_present, overlap, abort_touched, disposed >>
    /\ UNCHANGED aside_vars

\* Pipeline::begin_frame from the fence wait on, and the rest of
\* Renderer::begin_frame (which binds the current material) when it succeeds.
BeginFrameAcquire ==
    /\ pc = "wait"
    /\ FenceWait(frame_index)
    /\ \E r \in DriverResults, idx \in 0 .. (ImageCount - 1) :
         /\ last_acquire' = r
         /\ call_acquires' = call_acquires + 1
         /\ overlap' = (overlap \/ inflight[frame_index] \/ ~ fence[frame_index])
         /\ fence' = [fence EXCEPT ![frame_index] = FALSE]
         /\ acquiring' = acquire_next_image(acquiring, frame_index, frames, r)
         /\ IF AcquireNeedsReinit(r)
            THEN /\ begin_ret' = "Err"
                 /\ pc' = RunAfterBegin("Err")
                 /\ UNCHANGED << cmd, image_index, pipeline_active, material_vars >>
            ELSE /\ cmd' = [cmd EXCEPT ![frame_index] = "recording"]
                 /\ image_index' = idx
                 /\ begin_ret' = BeginFrameValue(reinitialized)
                 /\ pipeline_active' = TRUE
                 /\ Bound(bind(World, frame_index), "bind")
                 /\ pc' = RunAfterBegin(BeginFrameValue(reinitialized))
         /\ abort_touched' = (\/ abort_touched
                              \/ /\ r \in Stale
                                 /\ \/ begin_ret' # "Err"
                                    \/ cmd' # cmd
                                    \/ image_index' # image_index
                                    \/ pipeline_active' # pipeline_active
                                    \/ bound' # bound
                                    \/ material' # material)
    /\ UNCHANGED << frames, end_ret, frame_index, need_reinit, reinitialized,
                    pipeline_objects, render_pass, inflight, last_present,
                    prev_present, call_destroys, call_creates, rebuild_failed,
                    late_rebuild, end_count, entry_flag >>
    /\ UNCHANGED << sem, submission, presents, gpu_order >>
    /\ UNCHANGED teardown_vars
    /\ UNCHANGED aside_vars

\* on_update and on_draw have returned
Draw ==
    /\ pc = "draw"
    /\ pc' = "end"
    /\ UNCHANGED << frames, begin_ret, end_ret, reinitialized, inflight,
                    pipeline_active, pipeline_vars, material_vars, history_vars >>
    /\ UNCHANGED teardown_vars
    /\ UNCHANGED sync_vars
    /\ UNCHANGED aside_vars

\* Renderer::end_frame / Pipeline::end_frame: end the command buffer, submit
\* it with the slot's fence, present.
EndFrame ==
    /\ pc = "end"
    /\ IF need_reinit
       THEN /\ end_ret' = EndFrameValue(TRUE, "none")
            /\ pc' = RunAfterEnd(EndFrameValue(TRUE, "none"))
            /\ UNCHANGED << cmd, inflight, need_reinit, frame_index, last_present,
                            prev_present, end_count, pipeline_active, sem, submission,
                            presents >>
       ELSE \E r \in DriverResults :
            LET queued == queue_present(
                            queue_submit(Gpu, frame_index, frames, SubmitInfo(frame_index)),
                            frames, PresentInfo(frame_index, image_index))
            IN
            /\ cmd' = [cmd EXCEPT ![frame_index] = "executable"]
            /\ inflight' = queued.inflight
            /\ sem' = queued.sem
            /\ submission' = queued.submission
            /\ presents' = queued.presents
            /\ last_present' = r
            /\ prev_present' = last_present
            /\ need_reinit' = PresentNeedsReinit(r)
            /\ frame_index' = NextFrameIndex(frame_index, PresentNeedsReinit(r))
            /\ end_count' = (IF r = "success" THEN end_count + 1 ELSE end_count)
            /\ end_ret' = EndFrameValue(FALSE, r)
            /\ pipeline_active' = FALSE
            /\ pc' = RunAfterEnd(EndFrameValue(FALSE, r))
    /\ UNCHANGED << frames, begin_ret, image_index, reinitialized, pipeline_objects,
                    render_pass, fence, material_vars, last_acquire, call_destroys,
                    call_creates, call_acquires, rebuild_failed, late_rebuild,
                    entry_flag, overlap, abort_touched, acquiring, gpu_order >>
    /\ UNCHANGED teardown_vars
    /\ UNCHANGED aside_vars

\* ---------------------------------------------------------------------- GPU

\* what a GPU step leaves alone
GpuUntouched ==
    /\ UNCHANGED << pc, frames, begin_ret, end_ret, frame_index, image_index,
                    need_reinit, reinitialized, pipeline_objects, render_pass, cmd,
                    pipeline_active, material_vars, history_vars >>
    /\ UNCHANGED teardown_vars
    /\ UNCHANGED aside_vars

\* the GPU finishes the slot's submission and signals its fence, and the
\* frame's image is presented
GpuComplete(k) ==
    /\ inflight[k]
    /\ SetGpu(gpu_complete(Gpu, k))
    /\ GpuUntouched

GpuStep == \E k \in Slots : GpuComplete(k)

Next ==
    \/ AddShader
    \/ AddPushConstants
    \/ AddUniform
    \/ AddTexture
    \/ ExecInit
    \/ ProcessEvents
    \/ BeginFrameReinit
    \/ BeginFrameAcquire
    \/ SetMaterial
    \/ Draw
    \/ EndFrame
    \/ GpuStep

Spec == Init /\ [][Next]_vars

\* ------------------------------------------------- GPU steps, one at a time

ImageReady ==
    \E k \in Slots :
        /\ acquiring[k] # 0
        /\ SetGpu(image_ready(Gpu, k))
        /\ GpuUntouched

GpuStart ==
    \E k \in Slots :
        /\ inflight[k]
        /\ ~ submission[k].started
        /\ SetGpu(gpu_start(Gpu, k))
        /\ GpuUntouched

GpuExecute ==
    \E k \in Slots :
        /\ inflight[k]
        /\ submission[k].started
        /\ submission[k].waits = { }
        /\ SetGpu(gpu_execute(Gpu, k))
        /\ GpuUntouched

GpuPresent ==
    \E p \in presents :
        /\ p.waits = { }
        /\ SetGpu(gpu_present(Gpu, p))
        /\ GpuUntouched

\* the run loop of the default material against a GPU that takes its steps
\* one by one
NextSync ==
    \/ ExecInit
    \/ ProcessEvents
    \/ BeginFrameReinit
    \/ BeginFrameAcquire
    \/ Draw
    \/ EndFrame
    \/ ImageReady
    \/ GpuStart
    \/ GpuExecute
    \/ GpuPresent

SpecSync == Init /\ [][NextSync]_vars

\* ------------------------------------------------- Exec::run, called again

\* Exec::run is public and leaves the pipeline as the loop left it: a caller
\* that runs the application again after run() returned enters the loop with
\* the same frames, the same fences and the same need_reinit flag
ExecRunAgain ==
    /\ pc = "stopped"
    /\ frames < MaxFrames
    /\ pc' = "top"
    /\ UNCHANGED << frames, begin_ret, end_ret, reinitialized, inflight,
                    pipeline_active, pipeline_vars, material_vars, history_vars >>
    /\ UNCHANGED teardown_vars
    /\ UNCHANGED sync_vars
    /\ UNCHANGED aside_vars

NextRerun ==
    \/ ExecInit
    \/ ProcessEvents
    \/ BeginFrameReinit
    \/ BeginFrameAcquire
    \/ Draw
    \/ EndFrame
    \/ GpuStep
    \/ ExecRunAgain

SpecRerun == Init /\ [][NextRerun]_vars

\* ----------------------------------------------------------------- shutdown

\* default_main: exec.dispose() once exec.run() has returned
ExecDispose ==
    /\ pc = "stopped"
    /\ ~ disposed
    /\ wait_idle
    /\ LET done == Exec_dispose([ p |-> [ gen |-> pipeline_gen, log |-> << >> ],
                                  w |-> World ])
       IN  /\ pipeline_gen' = done.p.gen
           /\ event_log' = done.p.log
           /\ Store(done.w)
    /\ disposed' = TRUE
    /\ pipeline_objects' = "destroyed"
    /\ fence' = [ k \in Slots |-> FALSE ]
    /\ cmd' = [ k \in Slots |-> "freed" ]
    /\ UNCHANGED << pc, frames, begin_ret, end_ret, frame_index, image_index,
                    need_reinit, reinitialized, render_pass, inflight, pipeline_active,
                    samplers, adds, compiles, binds, last_op, clean_change,
                    add_touched, stale_kept, history_vars, old_gen >>
    /\ UNCHANGED sync_vars
    /\ UNCHANGED aside_vars

NextShutdown ==
    \/ Next
    \/ ExecDispose

SpecShutdown == Init /\ [][NextShutdown]_vars

\* ----------------------------------------------------- uniform operations

\* a Uniform<T> right after Uniform::new, for every data size, device alignment
\* and number of array elements
InitUniform ==
    /\ ExecNew
    /\ \E a \in Alignments : limits = [ uniform_buffer_alignment |-> a ]
    /\ array_elements \in 0 .. MaxElements
    /\ \E data_size \in 1 .. MaxDataSize :
         uniform = UniformNew(limits, data_size, array_elements)
    /\ UniformHistoryNew
    /\ BufferFixed
    /\ RenderStateNew
    /\ DeviceFixed
    /\ DetailNew
    /\ TasksNew
    /\ CallbacksNew
    /\ BlendNew
    /\ VertexQueueFresh
    /\ HostWriteNew

SetArrayIndex ==
    /\ \E idx \in 0 .. MaxIndex :
         /\ uniform' = set_array_index(uniform, idx)
         /\ array_index' = idx
    /\ uniform_op' = "set_array_index"
    /\ write_after' = -1
    /\ bind_after' = << -1 >>
    /\ UNCHANGED << limits, array_elements, last_write, dynamic_offsets, buffer_info >>
    /\ UNCHANGED uniform_rest

SetOffset ==
    /\ \E ofs \in 0 .. MaxIndex : uniform' = set_offset(uniform, ofs)
    /\ array_index' = -1
    /\ uniform_op' = "set_offset"
    /\ write_after' = -1
    /\ bind_after' = << -1 >>
    /\ UNCHANGED << limits, array_elements, last_write, dynamic_offsets, buffer_info >>
    /\ UNCHANGED uniform_rest

\* Uniform::update: copy into the current frame's buffer object
Update ==
    /\ last_write' = UniformBuffer_copy(uniform.buffer)
    /\ write_after' = IF array_index >= 0 /\ write_after = -1
                      THEN UniformBuffer_copy(uniform.buffer).ofs
                      ELSE write_after
    /\ uniform_op' = "update"
    /\ UNCHANGED << limits, uniform, array_elements, array_index, bind_after,
                    dynamic_offsets, buffer_info >>
    /\ UNCHANGED uniform_rest

\* Material::bind_uniforms of a material holding the uniform
BindUniforms ==
    /\ dynamic_offsets' = uniform_dynamic_offsets(uniform.buffer)
    /\ bind_after' = IF array_index >= 0 /\ bind_after = << -1 >>
                     THEN uniform_dynamic_offsets(uniform.buffer)
                     ELSE bind_after
    /\ uniform_op' = "bind_uniforms"
    /\ UNCHANGED << limits, uniform, array_elements, array_index, last_write,
                    write_after, buffer_info >>
    /\ UNCHANGED uniform_rest

\* Material::create_descriptor_set of a material holding the uniform
GetBufferInfo ==
    /\ buffer_info' = get_buffer_info(uniform.buffer)
    /\ uniform_op' = "get_buffer_info"
    /\ UNCHANGED << limits, uniform, array_elements, array_index, last_write,
                    write_after, bind_after, dynamic_offsets >>
    /\ UNCHANGED uniform_rest

NextUniform ==
    \/ SetArrayIndex
    \/ SetOffset
    \/ Update
    \/ BindUniforms
    \/ GetBufferInfo

SpecUniform == InitUniform /\ [][NextUniform]_vars

\* ------------------------------------------------------ buffer operations

\* the region a buffer operation reports in buffer_op
Region(name, ofs, len) == [ name |-> name, ofs |-> ofs, len |-> len ]

\* VertexBuffer::new, IndexBuffer::new, UniformBuffer::new or
\* ShaderStorageBuffer::new, for every size and every content of fresh memory
InitBuffer ==
    /\ ExecNew
    /\ UniformFixed
    /\ \E buffer_type \in BufferTypes, size \in 1 .. MaxBufferSize :
         \E mem \in [ 1 .. FRAME_BUFFER_COUNT -> Contents(size) ] :
           buffer_objects = BufferObjectsNew(buffer_type, size, mem)
    /\ buffer_op = Region("new", 0, 0)
    /\ upload_lost = FALSE
    /\ RenderStateNew
    /\ DeviceFixed
    /\ DetailNew
    /\ TasksNew
    /\ CallbacksNew
    /\ BlendNew
    /\ VertexQueueFresh
    /\ HostWriteNew

\* what copy_region(source, ofs, len) has to leave in device-local memory
Uploaded(before, after, source, ofs, len) ==
    \A k \in 0 .. (before.size - 1) :
        after.buffer_objects[1].bytes[k] =
            IF ofs <= k /\ k < ofs + len
            THEN source[k]
            ELSE before.buffer_objects[1].bytes[k]

\* VertexBuffer::copy_region / IndexBuffer::copy_region of a region inside the buffer
StagedCopyRegion ==
    /\ buffer_objects.buffer_type \in { "VERTEX", "INDEX" }
    /\ \E source \in Contents(buffer_objects.size) :
       \E ofs \in 0 .. (buffer_objects.size - 1) :
       \E len \in 1 .. (buffer_objects.size - ofs) :
         /\ buffer_objects' =
              IF buffer_objects.buffer_type = "VERTEX"
              THEN VertexBuffer_copy_region(buffer_objects, source, ofs, len)
              ELSE IndexBuffer_copy_region(buffer_objects, source, ofs, len)
         /\ buffer_op' = Region("copy_region", ofs, len)
         /\ upload_lost' = (\/ upload_lost
                            \/ ~ Uploaded(buffer_objects, buffer_objects', source, ofs, len))
    /\ UNCHANGED buffer_rest

\* VertexBuffer::copy / IndexBuffer::copy
StagedCopy ==
    /\ buffer_objects.buffer_type \in { "VERTEX", "INDEX" }
    /\ \E source \in Contents(buffer_objects.size) :
         /\ buffer_objects' =
              IF buffer_objects.buffer_type = "VERTEX"
              THEN VertexBuffer_copy(buffer_objects, source)
              ELSE IndexBuffer_copy(buffer_objects, source)
         /\ buffer_op' = Region("copy", 0, buffer_objects.size)
         /\ upload_lost' = (\/ upload_lost
                            \/ ~ Uploaded(buffer_objects, buffer_objects', source,
                                          0, buffer_objects.size))
    /\ UNCHANGED buffer_rest

\* UniformBuffer::copy_region of a region inside the frame's buffer object
UniformCopyRegion ==
    /\ buffer_objects.buffer_type \in { "UNIFORM", "DYNAMIC_UNIFORM" }
    /\ \E frame \in Slots :
       \E source \in Contents(buffer_objects.size) :
       \E ofs \in 0 .. (buffer_objects.size - 1) :
       \E len \in 1 .. (buffer_objects.size - ofs) :
         /\ buffer_objects' =
              UniformBuffer_copy_region(buffer_objects, frame, source, 0, ofs, len)
         /\ buffer_op' = Region("uniform_copy_region", ofs, len)
    /\ UNCHANGED << upload_lost, buffer_rest >>

\* ShaderStorageBuffer::alloc_frame_buffer, once per frame slot
StorageAlloc ==
    /\ buffer_objects.buffer_type = "SHADER_STORAGE"
    /\ Len(buffer_objects.buffer_objects) < FRAME_BUFFER_COUNT
    /\ \E bytes \in Contents(buffer_objects.size) :
         buffer_objects' = alloc_frame_buffer(buffer_objects, bytes)
    /\ buffer_op' = Region("alloc_frame_buffer", 0, 0)
    /\ UNCHANGED << upload_lost, buffer_rest >>

\* ShaderStorageBuffer::copy for a frame whose buffer was allocated
StorageCopy ==
    /\ buffer_objects.buffer_type = "SHADER_STORAGE"
    /\ \E frame \in Slots :
         /\ frame < Len(buffer_objects.buffer_objects)
         /\ \E source \in Contents(buffer_objects.size) :
              buffer_objects' = ShaderStorageBuffer_copy(buffer_objects, frame, source)
    /\ buffer_op' = Region("storage_copy", 0, buffer_objects.size)
    /\ UNCHANGED << upload_lost, buffer_rest >>

NextBuffer ==
    \/ StagedCopyRegion
    \/ StagedCopy
    \/ UniformCopyRegion
    \/ StorageAlloc
    \/ StorageCopy

SpecBuffer == InitBuffer /\ [][NextBuffer]_vars

\* ------------------------------------------------- calls on a RenderState

Called(name, val) ==
    /\ rs_before' = render_state
    /\ rs_call' = [ name |-> name, val |-> val ]
    /\ UNCHANGED render_state_rest

SetBlending ==
    \E val \in BOOLEAN :
        /\ render_state' = set_blending(render_state, val)
        /\ Called("set_blending", val)

SetBlendMode ==
    \E val \in BlendModes :
        /\ render_state' = set_blend_mode(render_state, val)
        /\ Called("set_blend_mode", val)

SetBackfaceCulling ==
    \E val \in BOOLEAN :
        /\ render_state' = set_backface_culling(render_state, val)
        /\ Called("set_backface_culling", val)

SetFrontfaceClockwise ==
    \E val \in BOOLEAN :
        /\ render_state' = set_frontface_clockwise(render_state, val)
        /\ Called("set_frontface_clockwise", val)

SetDepthTesting ==
    \E val \in BOOLEAN :
        /\ render_state' = set_depth_testing(render_state, val)
        /\ Called("set_depth_testing", val)

SetDepthWriting ==
    \E val \in BOOLEAN :
        /\ render_state' = set_depth_writing(render_state, val)
        /\ Called("set_depth_writing", val)

Copy ==
    \E other \in RenderStates :
        /\ render_state' = RenderState_copy(render_state, other)
        /\ Called("copy", other)

Invalidate ==
    /\ render_state' = RenderState_invalidate(render_state)
    /\ Called("invalidate", FALSE)

Push ==
    /\ render_state' = RenderState_push(render_state)
    /\ Called("push", FALSE)

NextRenderState ==
    \/ SetBlending
    \/ SetBlendMode
    \/ SetBackfaceCulling
    \/ SetFrontfaceClockwise
    \/ SetDepthTesting
    \/ SetDepthWriting
    \/ Copy
    \/ Invalidate
    \/ Push

SpecRenderState == Init /\ [][NextRenderState]_vars

\* ------------------------------------------------------------- Device::new

\* an adapter that meets every constraint of device selection
Eligible(a) ==
    /\ a.device_type \in { "DISCRETE_GPU", "INTEGRATED_GPU" }
    /\ required_device_extension_names \subseteq a.extensions
    /\ \E i \in 1 .. Len(a.surface_formats) : a.surface_formats[i] = PreferredFormat
    /\ \E i \in 1 .. Len(a.queue_families) : a.queue_families[i].graphics
    /\ \E i \in 1 .. Len(a.queue_families) : a.queue_families[i].present

\* the instance enumerates any number of adapters
InitDevice ==
    /\ ExecNew
    /\ UniformFixed
    /\ BufferFixed
    /\ RenderStateNew
    /\ DetailNew
    /\ TasksNew
    /\ CallbacksNew
    /\ BlendNew
    /\ VertexQueueFresh
    /\ HostWriteNew
    /\ device_count \in 0 .. MaxAdapters
    /\ physical = [ status |-> "searching", index |-> 0, info |-> [ continue |-> TRUE ] ]
    /\ examined = [ skipped_eligible |-> FALSE, selected_eligible |-> FALSE,
                    present_modes |-> { }, families_match |-> FALSE ]
    /\ logical = [ status |-> "none", reported |-> [ extended_dynamic_state |-> FALSE,
                                                     extended_dynamic_state3 |-> FALSE ],
                   device_features |-> DeviceFeaturesDefault ]
    /\ swapchain = NoSwapChain
    /\ render_pass_format = "UNDEFINED"
    /\ surface_now = PreferredFormat
    /\ rebuilds = 0

\* create_physical_device: enumerate_physical_devices fails
EnumerateFails ==
    /\ physical.status = "searching"
    /\ physical.index = 0
    /\ physical' = [ physical EXCEPT !.status = "enumerate_failed" ]
    /\ UNCHANGED << device_count, examined, logical, swapchain, render_pass_format,
                    surface_now, rebuilds >>
    /\ UNCHANGED device_rest

\* create_physical_device: one pass of the device loop
ExamineDevice ==
    /\ physical.status = "searching"
    /\ physical.index < device_count
    /\ \E a \in Adapters :
         LET info == examine_device(a, physical.index)
         IN  IF info.continue
             THEN /\ physical' = [ physical EXCEPT !.index = @ + 1 ]
                  /\ examined' = [ examined EXCEPT
                                     !.skipped_eligible = @ \/ Eligible(a) ]
             ELSE /\ physical' = [ status |-> "selected", index |-> physical.index,
                                   info |-> info ]
                  /\ examined' = [ examined EXCEPT
                                     !.selected_eligible = Eligible(a),
                                     !.present_modes = a.present_modes,
                                     !.families_match =
                                         /\ a.queue_families[info.graphics_family_index + 1].graphics
                                         /\ a.queue_families[info.present_family_index + 1].present ]
    /\ UNCHANGED << device_count, logical, swapchain, render_pass_format, surface_now,
                    rebuilds >>
    /\ UNCHANGED device_rest

\* create_physical_device: the device loop ends without a device
NoDeviceLeft ==
    /\ physical.status = "searching"
    /\ physical.index = device_count
    /\ physical' = [ physical EXCEPT !.status = "none_compatible" ]
    /\ UNCHANGED << device_count, examined, logical, swapchain, render_pass_format,
                    surface_now, rebuilds >>
    /\ UNCHANGED device_rest

\* Device::new: create_logical_device on the selected adapter
CreateLogicalDevice ==
    /\ physical.status = "selected"
    /\ logical.status = "none"
    /\ \E reported \in ReportedFeatures :
         logical' = create_logical_device(reported)
    /\ UNCHANGED << device_count, physical, examined, swapchain, render_pass_format,
                    surface_now, rebuilds >>
    /\ UNCHANGED device_rest

\* Pipeline::new on the device
PipelineNew ==
    /\ logical.status = "ok"
    /\ swapchain.present_mode = "none"
    /\ \E surface_capabilities \in SurfaceCapabilities :
       \E first_format \in SurfaceFormats :
         /\ swapchain' = SwapChainNew(physical.info, surface_capabilities, first_format)
         /\ surface_now' = first_format
    /\ render_pass_format' = create_render_pass_format(swapchain')
    /\ UNCHANGED << device_count, physical, examined, logical, rebuilds >>
    /\ UNCHANGED device_rest

\* Pipeline::reinit on the device, after the surface changed
PipelineReinit ==
    /\ swapchain.present_mode # "none"
    /\ rebuilds < MaxRebuilds
    /\ \E surface_capabilities \in SurfaceCapabilities :
       \E first_format \in SurfaceFormats :
         /\ swapchain' = SwapChainNew(physical.info, surface_capabilities, first_format)
         /\ surface_now' = first_format
    /\ render_pass_format' = create_render_pass_format(swapchain')
    /\ rebuilds' = rebuilds + 1
    /\ UNCHANGED << device_count, physical, examined, logical >>
    /\ UNCHANGED device_rest

NextDevice ==
    \/ EnumerateFails
    \/ ExamineDevice
    \/ NoDeviceLeft
    \/ CreateLogicalDevice
    \/ PipelineNew
    \/ PipelineReinit

SpecDevice == InitDevice /\ [][NextDevice]_vars

\* ------------------------------------------- Material::bind in detail

\* Material::add_uniform with a plain or a dynamic uniform
DeclareUniform ==
    /\ ~ detail_panicked
    /\ Len(detail.uniforms) < MaxUniforms
    /\ \E dynamic \in BOOLEAN, ofs \in 0 .. MaxIndex :
         detail' = [ detail EXCEPT
                       !.uniforms = Append(@, [ dynamic |-> dynamic, offset |-> ofs ]),
                       !.invalidated = TRUE ]
    /\ detail_calls' = << >>
    /\ UNCHANGED << detail_frame, detail_panicked >>
    /\ UNCHANGED detail_rest

\* Material::add_texture
DeclareTexture ==
    /\ ~ detail_panicked
    /\ detail.textures < MaxTextures
    /\ detail' = [ detail EXCEPT !.textures = @ + 1, !.invalidated = TRUE ]
    /\ detail_calls' = << >>
    /\ UNCHANGED << detail_frame, detail_panicked >>
    /\ UNCHANGED detail_rest

\* Uniform::set_offset on a uniform the material holds
MoveUniform ==
    /\ ~ detail_panicked
    /\ \E i \in 1 .. Len(detail.uniforms), ofs \in 0 .. MaxIndex :
         detail' = [ detail EXCEPT !.uniforms[i].offset = ofs ]
    /\ detail_calls' = << >>
    /\ UNCHANGED << detail_frame, detail_panicked >>
    /\ UNCHANGED detail_rest

\* Material::bind while the current frame is recorded
BindMaterial ==
    /\ ~ detail_panicked
    /\ \E lenient \in BOOLEAN :
         LET r == bind_detail(detail, detail_frame, FRAME_BUFFER_COUNT, lenient)
         IN  /\ detail' = r.m
             /\ detail_calls' = r.calls
             /\ detail_panicked' = r.panicked
    /\ UNCHANGED detail_frame
    /\ UNCHANGED detail_rest

\* the pipeline moves on to the next frame slot
AdvanceFrame ==
    /\ ~ detail_panicked
    /\ detail_frame' = (detail_frame + 1) % FRAME_BUFFER_COUNT
    /\ detail_calls' = << >>
    /\ UNCHANGED << detail, detail_panicked >>
    /\ UNCHANGED detail_rest

InitDetail ==
    /\ ExecNew
    /\ UniformFixed
    /\ BufferFixed
    /\ RenderStateNew
    /\ DeviceFixed
    /\ DetailNew
    /\ TasksNew
    /\ CallbacksNew
    /\ BlendNew
    /\ VertexQueueFresh
    /\ HostWriteNew

NextDetail ==
    \/ DeclareUniform
    \/ DeclareTexture
    \/ MoveUniform
    \/ BindMaterial
    \/ AdvanceFrame

SpecDetail == InitDetail /\ [][NextDetail]_vars

\* ------------------------------------------ Uniform::update from on_draw

\* on_update / on_draw call Uniform::update between begin_frame and end_frame
UniformUpdate ==
    /\ pc = "draw"
    /\ host_write' = [ call |-> "update",
                       slots |-> update_slots(frame_index),
                       in_flight |-> { k \in update_slots(frame_index) : inflight[k] } ]
    /\ UNCHANGED write_rest

\* on_update / on_draw call Uniform::update_all between begin_frame and end_frame
UniformUpdateAll ==
    /\ pc = "draw"
    /\ host_write' = [ call |-> "update_all",
                       slots |-> update_all_slots(frame_index),
                       in_flight |-> { k \in update_all_slots(frame_index) : inflight[k] } ]
    /\ UNCHANGED write_rest

NextWrite ==
    \/ ExecInit
    \/ ProcessEvents
    \/ BeginFrameReinit
    \/ BeginFrameAcquire
    \/ Draw
    \/ EndFrame
    \/ GpuStep
    \/ UniformUpdate
    \/ UniformUpdateAll

SpecWrite == Init /\ [][NextWrite]_vars

\* ------------------------------------------------------------ VertexQueue

\* the call on the queue that is about to run
VqCalled(name, exceeds) ==
    vq_call' = [ name |-> name, count |-> vq.count, reserved |-> vq.reserved,
                 exceeds |-> exceeds ]

VqBegin ==
    /\ ~ vq.panicked
    /\ vq' = VertexQueue_begin(vq)
    /\ VqCalled("begin", FALSE)
    /\ UNCHANGED << vq_buffer, vq_draws, vq_rendered >>
    /\ UNCHANGED vq_rest

VqClear ==
    /\ ~ vq.panicked
    /\ vq' = VertexQueue_clear(vq)
    /\ VqCalled("clear", FALSE)
    /\ UNCHANGED << vq_buffer, vq_draws, vq_rendered >>
    /\ UNCHANGED vq_rest

VqReserve ==
    /\ ~ vq.panicked
    /\ \E num_indices \in Usize, build \in Builds :
         /\ vq' = VertexQueue_reserve(vq, num_indices, build)
         /\ VqCalled("reserve",
                     vq.count > 0 \/ vq.count + vq.reserved + num_indices > vq.capacity)
    /\ UNCHANGED << vq_buffer, vq_draws, vq_rendered >>
    /\ UNCHANGED vq_rest

VqPush ==
    /\ ~ vq.panicked
    /\ \E quad \in QuadValues : vq' = VertexQueue_push(vq, quad)
    /\ VqCalled("push", vq.count + vq.reserved >= vq.capacity)
    /\ UNCHANGED << vq_buffer, vq_draws, vq_rendered >>
    /\ UNCHANGED vq_rest

VqStore ==
    /\ ~ vq.panicked
    /\ \E index \in 0 .. MaxCapacity, quad \in QuadValues :
         /\ vq' = VertexQueue_store(vq, index, quad)
         /\ VqCalled("store", index >= vq.capacity)
    /\ UNCHANGED << vq_buffer, vq_draws, vq_rendered >>
    /\ UNCHANGED vq_rest

InitVertexQueue ==
    /\ ExecNew
    /\ UniformFixed
    /\ BufferFixed
    /\ RenderStateNew
    /\ DeviceFixed
    /\ DetailNew
    /\ TasksNew
    /\ CallbacksNew
    /\ BlendNew
    /\ HostWriteNew
    /\ \E capacity \in 1 .. MaxCapacity :
         /\ vq = VertexQueueNew(capacity)
         /\ vq_buffer = [ i \in 1 .. capacity |-> 0 ]
    /\ vq_draws = << >>
    /\ vq_rendered = << >>
    /\ vq_call = [ name |-> "new", count |-> 0, reserved |-> 0, exceeds |-> FALSE ]

NextVertexQueue ==
    \/ VqBegin
    \/ VqClear
    \/ VqReserve
    \/ VqPush
    \/ VqStore

SpecVertexQueue == InitVertexQueue /\ [][NextVertexQueue]_vars

\* ------------------------------------- batches of a VertexQueue in a frame

\* VertexQueue::begin, also from Blitter::begin: a batch starts
BatchBegin ==
    /\ ~ vq.panicked
    /\ Len(vq_draws) < MaxBatches
    /\ vq' = VertexQueue_begin(vq)
    /\ UNCHANGED << vq_buffer, vq_draws, vq_rendered, vq_call >>
    /\ UNCHANGED vq_rest

\* VertexQueue::push, also from Blitter::push_sprite: the quads of a batch
\* carry the number of the batch in the frame
BatchPush ==
    /\ ~ vq.panicked
    /\ Len(vq_draws) < MaxBatches
    /\ vq' = VertexQueue_push(vq, Len(vq_draws) + 1)
    /\ UNCHANGED << vq_buffer, vq_draws, vq_rendered, vq_call >>
    /\ UNCHANGED vq_rest

\* VertexQueue::end and VertexQueue::draw, also from Blitter::end: the batch
\* is uploaded and its draw recorded into the frame
BatchEnd ==
    /\ ~ vq.panicked
    /\ Len(vq_draws) < MaxBatches
    /\ vq.count > 0
    /\ LET drawn == VertexQueue_draw([ q |-> vq, buffer |-> vq_buffer, draws |-> vq_draws ])
       IN  /\ vq' = drawn.q
           /\ vq_buffer' = drawn.buffer
           /\ vq_draws' = drawn.draws
    /\ UNCHANGED << vq_rendered, vq_call >>
    /\ UNCHANGED vq_rest

\* Pipeline::end_frame submits the command buffer with the recorded draws
FrameSubmit ==
    /\ ~ vq.panicked
    /\ vq_draws # << >>
    /\ vq_rendered' = vertices_read(vq_buffer, vq_draws)
    /\ vq_draws' = << >>
    /\ UNCHANGED << vq, vq_buffer, vq_call >>
    /\ UNCHANGED vq_rest

NextBatches ==
    \/ BatchBegin
    \/ BatchPush
    \/ BatchEnd
    \/ FrameSubmit

SpecBatches == InitVertexQueue /\ [][NextBatches]_vars

\* --------------------------------------------- Material, blend state

\* Material::set_blending
MaterialSetBlending ==
    /\ \E val \in BOOLEAN :
         blend' = [ blend EXCEPT !.render_state = set_blending(@, val) ]
    /\ blend_op' = "set_blending"
    /\ UNCHANGED << blend_features, blend_drawn >>
    /\ UNCHANGED blend_rest

\* Material::set_blend_mode
MaterialSetBlendMode ==
    /\ \E val \in BlendModes :
         blend' = [ blend EXCEPT !.render_state = set_blend_mode(@, val) ]
    /\ blend_op' = "set_blend_mode"
    /\ UNCHANGED << blend_features, blend_drawn >>
    /\ UNCHANGED blend_rest

\* Material::add_shader and the other add_* calls: the material is invalidated
MaterialAdd ==
    /\ blend' = [ blend EXCEPT !.invalidated = TRUE ]
    /\ blend_op' = "add"
    /\ UNCHANGED << blend_features, blend_drawn >>
    /\ UNCHANGED blend_rest

\* Material::bind: validate_pipeline, bind_pipeline, render_state.push
MaterialBind ==
    /\ LET validated == validate_pipeline_blend(blend, blend_features)
       IN  /\ blend' = [ validated EXCEPT !.render_state = RenderState_push(@) ]
           /\ blend_drawn' = blend_in_effect(validated.baked,
                                             pushed_blend(validated.render_state,
                                                          blend_features))
    /\ blend_op' = "bind"
    /\ UNCHANGED blend_features
    /\ UNCHANGED blend_rest

InitBlend ==
    /\ ExecNew
    /\ UniformFixed
    /\ BufferFixed
    /\ RenderStateNew
    /\ DeviceFixed
    /\ DetailNew
    /\ TasksNew
    /\ CallbacksNew
    /\ HostWriteNew
    /\ VertexQueueFresh
    /\ blend = MaterialBlendNew
    /\ blend_features \in AcceptedFeatures
    /\ blend_drawn = [ enable |-> FALSE, mode |-> -1 ]
    /\ blend_op = "new"

NextBlend ==
    \/ MaterialSetBlending
    \/ MaterialSetBlendMode
    \/ MaterialAdd
    \/ MaterialBind

SpecBlend == InitBlend /\ [][NextBlend]_vars

\* ---------------------------------------- callbacks on the application

MainCallbacks == { "on_keystate_change", "on_metrics", "on_update", "on_draw" }

can_lock_NoWait(mutex) == TRUE

\* Mutex::lock returns once no thread holds the mutex; the holder is -1 for
\* none, 0 for the main thread and i for the thread of task i
can_lock(mutex) == mutex = -1

\* the callback of thread_loop a task thread is inside, "none" outside
task_inside(at) == IF at \in { "start", "run", "run_delta", "is_running", "stop" }
                   THEN at ELSE "none"

\* Exec::on_keystate_change, metrics_changed, update, draw: the statement
\* application.lock().unwrap().callback() begins
MainCall ==
    /\ main_cb.at = "idle"
    /\ \E cb \in MainCallbacks : main_cb' = [ at |-> "waiting", cb |-> cb ]
    /\ UNCHANGED << app_mutex, task_cb >>
    /\ UNCHANGED callback_rest

\* the lock is taken and the callback runs
MainEnter ==
    /\ main_cb.at = "waiting"
    /\ can_lock(app_mutex)
    /\ app_mutex' = 0
    /\ main_cb' = [ main_cb EXCEPT !.at = "inside" ]
    /\ UNCHANGED task_cb
    /\ UNCHANGED callback_rest

\* the callback returns and the guard is dropped at the end of the statement
MainReturn ==
    /\ main_cb.at = "inside"
    /\ app_mutex' = -1
    /\ main_cb' = [ at |-> "idle", cb |-> "none" ]
    /\ UNCHANGED task_cb
    /\ UNCHANGED callback_rest

\* Task::thread_loop and thread_step: runnable_ref.lock() before start(), before
\* each step and before stop()
TaskLock ==
    \E i \in TaskIds :
        /\ task_cb[i] \in { "start_wait", "step_wait", "stop_wait" }
        /\ can_lock(app_mutex)
        /\ app_mutex' = i
        /\ task_cb' = [ task_cb EXCEPT ![i] =
                          CASE task_cb[i] = "start_wait" -> "start"
                            [] task_cb[i] = "step_wait" -> "run"
                            [] OTHER -> "stop" ]
        /\ UNCHANGED main_cb
        /\ UNCHANGED callback_rest

\* Task::thread_step under the lock: run(), then run_delta(), then is_running()
TaskStep ==
    \E i \in TaskIds :
        /\ task_cb[i] \in { "run", "run_delta" }
        /\ task_cb' = [ task_cb EXCEPT ![i] =
                          IF task_cb[i] = "run" THEN "run_delta" ELSE "is_running" ]
        /\ UNCHANGED << app_mutex, main_cb >>
        /\ UNCHANGED callback_rest

\* the guard is dropped: after start() the loop begins, after a step the loop
\* goes on or ends, after stop() the thread ends
TaskUnlock ==
    \E i \in TaskIds :
        /\ task_cb[i] \in { "start", "is_running", "stop" }
        /\ app_mutex' = -1
        /\ \E next \in { "step_wait", "stop_wait" } :
             task_cb' = [ task_cb EXCEPT ![i] =
                            IF task_cb[i] = "stop" THEN "done" ELSE next ]
        /\ UNCHANGED main_cb
        /\ UNCHANGED callback_rest

NextCallbacks ==
    \/ MainCall
    \/ MainEnter
    \/ MainReturn
    \/ TaskLock
    \/ TaskStep
    \/ TaskUnlock

SpecCallbacks == Init /\ [][NextCallbacks]_vars

\* ---------------------------------------------------- Task::start / stop

\* Task::start: spawn the worker thread and keep its handle
TaskStart ==
    /\ caller.op = "start"
    /\ task_handle' = [task_handle EXCEPT ![caller.i] = "some"]
    /\ worker_pc' = [worker_pc EXCEPT ![caller.i] = "enter"]
    /\ caller' = next_call("start", caller.i, "stop")
    /\ UNCHANGED << task_running, running_flag >>
    /\ UNCHANGED task_rest

\* Task::stop up to the join: store false in the flag, take the handle,
\* return when there is none
TaskStop ==
    /\ caller.op = "stop"
    /\ task_running' = [task_running EXCEPT ![caller.i] = FALSE]
    /\ task_handle' = [task_handle EXCEPT ![caller.i] = "none"]
    /\ caller' = IF task_handle[caller.i] = "none"
                 THEN next_call("stop", caller.i, "done")
                 ELSE [ op |-> "join", i |-> caller.i ]
    /\ UNCHANGED << worker_pc, running_flag >>
    /\ UNCHANGED task_rest

\* Task::stop, handle.join(): returns once the worker thread has ended
TaskJoin ==
    /\ caller.op = "join"
    /\ worker_pc[caller.i] = "done"
    /\ worker_pc' = [worker_pc EXCEPT ![caller.i] = "joined"]
    /\ caller' = next_call("stop", caller.i, "done")
    /\ UNCHANGED << task_handle, task_running, running_flag >>
    /\ UNCHANGED task_rest

\* Task::thread_loop before the loop: running_flag = true, stored in the flag
ThreadLoopEnter ==
    \E i \in TaskIds :
        /\ worker_pc[i] = "enter"
        /\ running_flag' = [running_flag EXCEPT ![i] = TRUE]
        /\ task_running' = [task_running EXCEPT ![i] = TRUE]
        /\ worker_pc' = [worker_pc EXCEPT ![i] = "check"]
        /\ UNCHANGED << task_handle, caller >>
        /\ UNCHANGED task_rest

\* Task::thread_loop, the head of the loop: leave when the local or the flag
\* is false
ThreadLoopCheck ==
    \E i \in TaskIds :
        /\ worker_pc[i] = "check"
        /\ worker_pc' = [worker_pc EXCEPT ![i] =
                            IF running_flag[i] /\ task_running[i] THEN "step" ELSE "exit"]
        /\ UNCHANGED << task_handle, task_running, running_flag, caller >>
        /\ UNCHANGED task_rest

\* Task::thread_step: run the runnable, return its is_running()
ThreadStep ==
    \E i \in TaskIds, is_running \in BOOLEAN :
        /\ worker_pc[i] = "step"
        /\ running_flag' = [running_flag EXCEPT ![i] = is_running]
        /\ worker_pc' = [worker_pc EXCEPT ![i] = "check"]
        /\ UNCHANGED << task_handle, task_running, caller >>
        /\ UNCHANGED task_rest

\* Task::thread_loop after the loop: store false in the flag, the thread ends
ThreadLoopExit ==
    \E i \in TaskIds :
        /\ worker_pc[i] = "exit"
        /\ task_running' = [task_running EXCEPT ![i] = FALSE]
        /\ worker_pc' = [worker_pc EXCEPT ![i] = "done"]
        /\ UNCHANGED << task_handle, running_flag, caller >>
        /\ UNCHANGED task_rest

NextTask ==
    \/ TaskStart
    \/ TaskStop
    \/ TaskJoin
    \/ ThreadLoopEnter
    \/ ThreadLoopCheck
    \/ ThreadStep
    \/ ThreadLoopExit

SpecTask == Init /\ [][NextTask]_vars

\* ------------------------------------------------------------- properties

C2_RoundRobin ==
    /\ frame_index = end_count % FRAME_BUFFER_COUNT
    /\ (pc \in { "top", "begin" } /\ last_present \in Stale) => need_reinit

\* three end_frames without a reinit: the index has wrapped around once
C2_Witness ==
    /\ pc = "top"
    /\ render_pass = 0
    /\ frames = FRAME_BUFFER_COUNT + 1
    /\ end_count = FRAME_BUFFER_COUNT + 1
    /\ frame_index = 1

\* C3: a begin_frame call tears down and rebuilds the pipeline once when the
\* end_frame before it saw a failed or suboptimal present, and not at all
\* otherwise; it never runs more than one teardown or more than one rebuild.
C3_OneRebuildPerCall ==
    /\ call_destroys <= 1
    /\ call_creates <= 1
    /\ pc \in { "wait", "draw", "end" } =>
         /\ call_creates = (IF last_present \in Stale THEN 1 ELSE 0)
         /\ call_destroys = call_creates
    /\ (pc = "stopped" /\ rebuild_failed) => (call_destroys = 1 /\ call_creates = 1)

\* the second of two consecutive suboptimal presents has just been answered
\* by the second rebuild
C3_Witness ==
    /\ pc = "wait"
    /\ prev_present = "suboptimal"
    /\ last_present = "suboptimal"
    /\ call_creates = 1
    /\ render_pass = 2

\* C4: end_frame returns Ok when the present failed or was suboptimal and only
\* sets need_reinit; the next begin_frame starts with the teardown and rebuild,
\* and a rebuild that succeeds clears the flag.
C4_DeferredReinit ==
    /\ (pc \in { "top", "begin" } /\ last_present \in Stale) =>
         (end_ret = "Ok" /\ need_reinit)
    /\ (pc \in { "wait", "draw", "end" } /\ entry_flag) =>
         (call_destroys = 1 /\ call_creates = 1 /\ ~ need_reinit /\ reinitialized)
    /\ (pc \in { "wait", "draw", "end" } /\ ~ entry_flag) => call_creates = 0
    /\ end_ret # "Err"

\* a flagged present has been consumed by the following begin_frame
C4_Witness ==
    /\ pc = "draw"
    /\ last_present = "error"
    /\ entry_flag
    /\ ~ need_reinit
    /\ end_ret = "Ok"

\* C5: when acquisition fails or is suboptimal, begin_frame returns Err and
\* leaves every command buffer, the stored image index, the renderer and the
\* bind state as they were.
C5_AcquireAbort ==
    /\ ~ abort_touched
    /\ (last_acquire \in Stale) =>
         /\ begin_ret = "Err"
         /\ ~ pipeline_active
         /\ \A k \in Slots : cmd[k] # "recording"

\* an acquisition on a slot that was recorded before has aborted the frame
C5_Witness ==
    /\ pc = "stopped"
    /\ begin_ret = "Err"
    /\ last_acquire = "suboptimal"
    /\ call_acquires = 1
    /\ cmd[frame_index] = "executable"
    /\ image_index = 1

\* C6: after an acquisition that failed or was suboptimal the run loop keeps
\* running and the pipeline is flagged for the rebuild of the next begin_frame.
C6_AcquireRecoverable ==
    [][ (pc = "wait" /\ pc' # "wait" /\ last_acquire' \in Stale)
          => (pc' # "stopped" /\ need_reinit') ]_vars

\* C7: once a rebuild has failed, begin_frame has returned Err without
\* acquiring or recording, the run loop has stopped, and no rebuild is
\* attempted again.
C7_FailedRebuildStops ==
    /\ ~ late_rebuild
    /\ rebuild_failed =>
         /\ pc = "stopped"
         /\ begin_ret = "Err"
         /\ call_creates = 1
         /\ call_acquires = 0
         /\ pipeline_objects = "destroyed"
         /\ \A k \in Slots : cmd[k] # "recording"

\* the rebuild after a flagged present has failed
C7_Witness ==
    /\ rebuild_failed
    /\ pc = "stopped"
    /\ last_present \in Stale
    /\ need_reinit

\* C8: a begin_frame that succeeded returned true exactly when that call
\* rebuilt the pipeline, which is exactly when it was entered with the flag set.
C8_ReturnsReinitialized ==
    pc \in { "draw", "end" } =>
      /\ begin_ret = (IF call_creates = 1 THEN "Ok(true)" ELSE "Ok(false)")
      /\ (call_creates = 1) <=> entry_flag

\* a begin_frame has rebuilt the pipeline and returned true
C8_Witness ==
    /\ pc = "draw"
    /\ begin_ret = "Ok(true)"
    /\ call_creates = 1

\* C9: once bind or compile has run since the last add_* (or the
\* construction), the compiled objects have been freed and rebuilt exactly
\* once, however often it has run; a bind of a material that is not dirty
\* changes no compiled object.
C9_BindIdempotent ==
    /\ compiles <= 1
    /\ binds >= 1 => compiles = 1
    /\ ~ clean_change

\* bind has run twice since the last add_* and recompiled once
C9_Witness ==
    /\ binds = 2
    /\ compiles = 1
    /\ adds >= 1
    /\ last_op = "bind"

\* C10: an add_* call sets the dirty flag and leaves every compiled object as
\* it is; the bind that clears the flag destroys every object compiled before
\* and creates all of them anew from the current declarations.
C10_AddInvalidates ==
    /\ ~ add_touched
    /\ ~ stale_kept
    /\ gpu_objects = Held(material)
    /\ ~ material.invalidated =>
         /\ material.built_from = Declared(material)
         /\ material.graphics_pipeline # Null
         /\ \A h \in Held(material) : h[2] = handle_seq

\* Uncompiled -> Compiled -> Invalidated -> Compiled
C10_Witness ==
    /\ handle_seq = 2
    /\ ~ material.invalidated
    /\ last_op = "bind"
    /\ adds >= 1
    /\ material.descriptor_pool # Null

\* ------------------------------------------------------ uniform properties

\* the smallest multiple of a that is >= e, divided by a
CeilDiv(e, a) == (e + a - 1) \div a

\* C11: on a dynamic uniform of element size E and device alignment A,
\* set_array_index(i) leaves the byte offset at i * ceil(E/A) * A.
C11_OffsetIsIndexTimesCeil ==
    (uniform.buffer.dynamic /\ uniform_op = "set_array_index") =>
        uniform.offset =
            array_index
            * CeilDiv(uniform.data_size, limits.uniform_buffer_alignment)
            * limits.uniform_buffer_alignment

\* C12: the byte offset selected by set_array_index is a multiple of the
\* device's minimum uniform-buffer offset alignment.
C12_OffsetAligned ==
    (uniform.buffer.dynamic /\ array_index >= 0) =>
        /\ uniform.offset % limits.uniform_buffer_alignment = 0
        /\ uniform.buffer.offset % limits.uniform_buffer_alignment = 0

\* a non-zero index selected on a dynamic uniform whose element size is not
\* itself aligned
C12_Witness ==
    /\ uniform.buffer.dynamic
    /\ uniform_op = "set_array_index"
    /\ array_index >= 1
    /\ uniform.data_size % limits.uniform_buffer_alignment # 0
    /\ uniform.buffer.offset > 0

\* C13: a uniform constructed with zero extra array elements has a plain
\* uniform buffer of exactly the element size, and its write offset, its
\* descriptor offset and its dynamic offsets never leave 0 (no dynamic offset
\* is passed at all), whatever is called on it.
C13_PlainUniformStaysAtStart ==
    array_elements = 0 =>
        /\ ~ uniform.buffer.dynamic
        /\ uniform.buffer.buffer_type = "UNIFORM"
        /\ uniform.buffer.buffer_size = uniform.data_size
        /\ uniform.buffer.offset = 0
        /\ last_write.ofs \in { -1, 0 }
        /\ buffer_info.offset \in { -1, 0 }
        /\ dynamic_offsets \in { << -1 >>, << >> }

\* C14: after set_array_index on a dynamic uniform, the offset the next
\* update() writes at and the dynamic offset the next bind passes are the same
\* value, the offset selected.
C14_WriteAndBindAgree ==
    (uniform.buffer.dynamic /\ array_index >= 0) =>
        /\ write_after # -1 => write_after = uniform.buffer.offset
        /\ bind_after # << -1 >> => bind_after = << uniform.buffer.offset >>
        /\ (write_after # -1 /\ bind_after # << -1 >>) => bind_after = << write_after >>

\* element 1 was selected, then written and bound
C14_Witness ==
    /\ uniform.buffer.dynamic
    /\ array_index = 1
    /\ write_after = uniform.aligned_data_size
    /\ bind_after = << uniform.aligned_data_size >>

\* ------------------------------------------------------- buffer properties

\* C15: on a vertex or index buffer, copy_region(src, ofs, len) with
\* ofs + len <= size leaves the device-local bytes of the region equal to the
\* source bytes of that region and the device-local bytes outside it as they
\* were; copy(src) does so for the whole buffer.
C15_StagedUploadRoundTrip ==
    /\ ~ upload_lost
    /\ buffer_op.name \in { "copy", "copy_region" } =>
          \A k \in buffer_op.ofs .. (buffer_op.ofs + buffer_op.len - 1) :
              buffer_objects.buffer_objects[1].bytes[k] =
                  buffer_objects.buffer_objects[2].bytes[k]

\* the middle byte of a three-byte vertex buffer was uploaded, its neighbours kept
C15_Witness ==
    /\ buffer_objects.buffer_type = "VERTEX"
    /\ buffer_objects.size = 3
    /\ buffer_op = Region("copy_region", 1, 1)
    /\ buffer_objects.buffer_objects[1].bytes = [ k \in 0 .. 2 |-> IF k = 1 THEN 1 ELSE 0 ]
    /\ buffer_objects.buffer_objects[2].bytes = [ k \in 0 .. 2 |-> 1 ]

\* a device-local buffer paired with a host-visible staging buffer of equal
\* size, the device-local one written by buffer copies only
Paired(bos) ==
    /\ Len(bos.buffer_objects) = 2
    /\ "DEVICE_LOCAL" \in bos.buffer_objects[1].memory
    /\ "TRANSFER_DST" \in bos.buffer_objects[1].usage
    /\ bos.buffer_objects[2].buffer_type = "STAGING"
    /\ "HOST_VISIBLE" \in bos.buffer_objects[2].memory
    /\ "TRANSFER_SRC" \in bos.buffer_objects[2].usage
    /\ bos.buffer_objects[1].size = bos.buffer_objects[2].size
    /\ bos.buffer_objects[1].written \in { "never", "cmd_copy_buffer" }
    /\ bos.buffer_objects[2].written \in { "never", "map" }
    /\ bos.buffer_objects[1].written = "cmd_copy_buffer" =>
          bos.buffer_objects[2].written = "map"

\* C16 as stated: every vertex, index, uniform, dynamic uniform and storage
\* buffer is a device-local buffer paired with a host-visible staging buffer
\* of equal size, written through the staging buffer and an explicit copy.
C16_EveryBufferPaired ==
    buffer_objects.buffer_type \in BufferTypes => Paired(buffer_objects)

\* C16 amended: vertex and index buffers are such pairs, and each write to them
\* goes into the staging buffer and from there to the device-local buffer by a
\* buffer copy; uniform, dynamic uniform and storage buffers have neither a
\* device-local nor a staging buffer: they are host-visible buffers of the
\* buffer's size (one per frame slot for the uniforms) written through mapped
\* memory.
C16_VertexIndexPaired ==
    LET objs == buffer_objects.buffer_objects
        type == buffer_objects.buffer_type
    IN  /\ type \in { "VERTEX", "INDEX" } =>
              /\ Paired(buffer_objects)
              /\ buffer_op.name \in { "copy", "copy_region" } =>
                    /\ objs[2].written = "map"
                    /\ objs[1].written = "cmd_copy_buffer"
        /\ type \in { "UNIFORM", "DYNAMIC_UNIFORM" } => Len(objs) = FRAME_BUFFER_COUNT
        /\ type \in { "UNIFORM", "DYNAMIC_UNIFORM", "SHADER_STORAGE" } =>
              \A i \in 1 .. Len(objs) :
                  /\ objs[i].buffer_type = type
                  /\ objs[i].size = buffer_objects.size
                  /\ "HOST_VISIBLE" \in objs[i].memory
                  /\ "DEVICE_LOCAL" \notin objs[i].memory
                  /\ objs[i].written \in { "never", "map" }
        /\ buffer_op.name \in { "uniform_copy_region", "storage_copy" } =>
              \E i \in 1 .. Len(objs) : objs[i].written = "map"

\* an index buffer after a whole-buffer copy
C16_Witness ==
    /\ buffer_objects.buffer_type = "INDEX"
    /\ buffer_op.name = "copy"
    /\ buffer_objects.buffer_objects[2].written = "map"
    /\ buffer_objects.buffer_objects[1].written = "cmd_copy_buffer"

\* ----------------------------------------------------- teardown properties

\* the place of an object in the shutdown order of the specification: material
\* descriptor sets and pools, pipeline layouts, render pass, swapchain, device
ShutdownRank(obj) ==
    CASE obj \in { "descriptor_set", "descriptor_pool" } -> 1
      [] obj = "pipeline_layout" -> 2
      [] obj = "render_pass" -> 3
      [] obj = "swapchain" -> 4
      [] obj = "device" -> 5
      [] OTHER -> 0

\* C17: at shutdown the device is waited idle before anything is destroyed,
\* and descriptor sets and pools are destroyed before pipeline layouts, these
\* before the render pass, the render pass before the swapchain, and the
\* device last.
C17_ShutdownOrder ==
    disposed =>
        /\ \E i \in DOMAIN event_log :
              /\ event_log[i] = << "wait_idle", "device" >>
              /\ \A j \in DOMAIN event_log : event_log[j][1] = "destroy" => i < j
        /\ \A i, j \in DOMAIN event_log :
              (/\ event_log[i][1] = "destroy"
               /\ event_log[j][1] = "destroy"
               /\ ShutdownRank(event_log[i][2]) > 0
               /\ ShutdownRank(event_log[j][2]) > ShutdownRank(event_log[i][2]))
              => i < j
        /\ \E i \in DOMAIN event_log :
              /\ event_log[i] = << "destroy", "device" >>
              /\ \A j \in DOMAIN event_log : j <= i

\* the calls destroy_pipeline makes on a live pipeline
TeardownCalls ==
    << << "wait_idle", "device" >>,
       << "wait_idle", "device" >>, << "destroy", "frames" >>,
       << "wait_idle", "device" >>, << "destroy", "frame_buffers" >>,
       << "destroy", "render_pass" >>,
       << "destroy", "depth_buffer" >>,
       << "destroy", "image_views" >>,
       << "destroy", "swapchain" >> >>

\* C18: a rebuild waits for the device to be idle, then destroys frames,
\* framebuffers, render pass, depth buffer, image views and swapchain, and
\* only then creates replacements; after a successful rebuild every object of
\* the pipeline is of the new generation, none is kept from the old one.
C18_WholesaleRebuild ==
    (call_creates = 1 /\ ~ disposed) =>
        /\ Len(event_log) >= Len(TeardownCalls)
        /\ SubSeq(event_log, 1, Len(TeardownCalls)) = TeardownCalls
        /\ \A i \in (Len(TeardownCalls) + 1) .. Len(event_log) :
              event_log[i][1] = "create"
        /\ \A o \in PipelineObjects : pipeline_gen[o] # old_gen[o]
        /\ reinitialized =>
              /\ \A o \in PipelineObjects : pipeline_gen[o] = render_pass + 1
              /\ \A o \in PipelineObjects : << "create", o >> \in Range(event_log)
              /\ Len(event_log) = Len(TeardownCalls) + Len(CreateOrder)

\* the second rebuild has replaced the objects of the first
C18_Witness ==
    /\ pc = "draw"
    /\ reinitialized
    /\ call_creates = 1
    /\ old_gen["swapchain"] = 2
    /\ pipeline_gen["swapchain"] = 3
    /\ event_log[Len(event_log)] = << "create", "frames" >>


\* what the stage mask of the wait lets run early is not part of the order
AfterWaitStage(e) == e # "vertex_work"

IsPrefix(s, t) == Len(s) <= Len(t) /\ SubSeq(t, 1, Len(s)) = s

GpuOrder(f) == SelectSeq(gpu_order[f], AfterWaitStage)

SetterField ==
    [ set_blending            |-> "enable_blending",
      set_blend_mode          |-> "blend_mode",
      set_backface_culling    |-> "backface_culling",
      set_frontface_clockwise |-> "frontface_clockwise",
      set_depth_testing       |-> "depth_testing",
      set_depth_writing       |-> "depth_writing" ]

\* C20: each render-state setter mutates only its own field (plus the
\* modified marker): after set_depth_testing(val), depth_testing is val and
\* backface_culling is what it was; after set_backface_culling, depth_testing
\* is what it was; likewise for the other setters.
C20_SettersIndependent ==
    rs_call.name \in DOMAIN SetterField =>
        /\ render_state[SetterField[rs_call.name]] = rs_call.val
        /\ \A fld \in DOMAIN render_state \ { "modified", SetterField[rs_call.name] } :
               render_state[fld] = rs_before[fld]

\* -------------------------------------------------------- device properties

\* C21: after any number of pipeline rebuilds, the swapchain's surface format
\* and the render pass colour format equal the format negotiated at device
\* selection.
C21_FormatPreserved ==
    swapchain.present_mode # "none" =>
        /\ swapchain.format = physical.info.surface_format
        /\ render_pass_format = physical.info.surface_format.format

C21_Witness ==
    /\ rebuilds = MaxRebuilds
    /\ surface_now # PreferredFormat
    /\ swapchain.format = PreferredFormat

\* C22: the swapchain present mode is mailbox when the selected adapter
\* advertised mailbox support and FIFO otherwise; no other present mode is
\* ever selected.
C22_PresentMode ==
    swapchain.present_mode # "none" =>
        swapchain.present_mode =
            IF "MAILBOX" \in examined.present_modes THEN "MAILBOX" ELSE "FIFO"

C22_Witness ==
    /\ swapchain.present_mode = "FIFO"
    /\ examined.present_modes = { "FIFO", "IMMEDIATE" }

\* C23: device selection returns the first enumerated adapter that is a
\* discrete or integrated GPU, supports every required extension, offers the
\* preferred BGRA 8-bit sRGB surface format, and has a graphics-capable and a
\* present-capable queue family; an adapter without the preferred format is
\* skipped; if no adapter satisfies all constraints, selection fails.
C23_FirstEligibleAdapter ==
    /\ ~ examined.skipped_eligible
    /\ physical.status = "selected" =>
           /\ examined.selected_eligible
           /\ physical.info.obj = physical.index
           /\ physical.info.surface_format = PreferredFormat
           /\ examined.families_match
    /\ physical.status = "none_compatible" => physical.index = device_count
    /\ physical.status = "searching" => physical.index <= device_count

C23_Witness ==
    /\ physical.status = "selected"
    /\ physical.index = 1
    /\ physical.info.graphics_family_index = 1
    /\ physical.info.present_family_index = 0

\* C24: feature negotiation is request-then-verify: logical device creation
\* fails if extended dynamic state is reported unsupported; the optional
\* capability is requested and verified, its absence never fails device
\* creation, and the recorded flag reflects whether the device reported it.
C24_RequestThenVerify ==
    logical.status # "none" =>
        /\ logical.status = "err" <=> ~ logical.reported.extended_dynamic_state
        /\ logical.status = "ok" =>
               /\ logical.device_features.dynamic_state
               /\ logical.device_features.dynamic_state_3 =
                      logical.reported.extended_dynamic_state3

\* ------------------------------------------------- compilation properties

IsDynamicUniform(u) == u.dynamic

\* the offsets of the dynamic uniforms, in the order of declaration
DeclaredDynamicOffsets ==
    LET dyn == SelectSeq(detail.uniforms, IsDynamicUniform)
    IN  [ i \in 1 .. Len(dyn) |-> dyn[i].offset ]

\* the last operation on the material was a bind that returned
BindReturned == detail_calls # << >> /\ ~ detail_panicked

\* C25: bind() performs, in this order: validate, bind the pipeline-state
\* object, push the dynamic render-state values, bind the current frame slot's
\* descriptor set; the dynamic offsets passed are the current offsets of
\* exactly the material's dynamic uniforms, in the order of declaration.
C25_BindOrder ==
    BindReturned =>
        LET n == Len(detail_calls)
            k == IF detail.descriptor_sets # << >> THEN n - 2 ELSE n - 1
        IN  /\ k >= 2
            /\ detail_calls[1][1] = "validate_pipeline"
            /\ \A i \in 2 .. (k - 1) :
                   detail_calls[i][1] \in { "create", "destroy", "allocate_descriptor_sets" }
            /\ detail_calls[k][1] = "cmd_bind_pipeline"
            /\ detail_calls[k][2] = detail.graphics_pipeline
            /\ detail.graphics_pipeline # Null
            /\ detail_calls[k + 1][1] = "push"
            /\ detail.descriptor_sets # << >> =>
                   /\ detail_calls[n][1] = "cmd_bind_descriptor_sets"
                   /\ detail_calls[n][2] = detail_frame
                   /\ detail_calls[n][3] = DeclaredDynamicOffsets

C25_Witness ==
    /\ BindReturned
    /\ detail_frame = 1
    /\ Len(detail.uniforms) = 2
    /\ ~ detail.uniforms[1].dynamic
    /\ detail.uniforms[1].offset = 1
    /\ detail.uniforms[2].dynamic
    /\ detail.uniforms[2].offset = 2
    /\ detail_calls[Len(detail_calls)][1] = "cmd_bind_descriptor_sets"

\* the positions of the calls of one kind in the last bind
CallsOf(kinds) == { i \in 1 .. Len(detail_calls) : detail_calls[i][1] \in kinds }

\* the positions of the destroy calls on the given objects
DestroysOf(objects) ==
    { i \in CallsOf({ "destroy" }) : detail_calls[i][2] \in objects }

\* the last bind found the material dirty
Rebuilt == detail_calls # << >> /\ detail_calls[1] = << "validate_pipeline", TRUE >>

\* C26: when validate rebuilds a dirty material, it frees the previous
\* descriptor pool and sets before the previous pipeline-state object and
\* layouts, completes every free before creating anything new, and clears the
\* dirty flag.
C26_FreeBeforeCreate ==
    Rebuilt =>
        /\ ~ detail.invalidated
        /\ \A i \in DestroysOf({ "descriptor_pool" }) :
           \A j \in DestroysOf({ "graphics_pipeline", "pipeline_layout",
                                 "descriptor_set_layout" }) : i < j
        /\ \A i \in CallsOf({ "destroy" }) :
           \A j \in CallsOf({ "create", "allocate_descriptor_sets" }) : i < j

C26_Witness ==
    /\ Rebuilt
    /\ DestroysOf({ "descriptor_pool" }) # { }
    /\ DestroysOf({ "graphics_pipeline" }) # { }
    /\ CallsOf({ "allocate_descriptor_sets" }) # { }

\* the descriptors of each type the material declares
DeclaredDescriptors ==
    [ t \in DescriptorTypes |->
        IF t = "COMBINED_IMAGE_SAMPLER" THEN detail.textures
        ELSE Cardinality({ i \in 1 .. Len(detail.uniforms) :
                             descriptor_type(detail.uniforms[i]) = t }) ]

\* C27: the descriptor pool created at compilation has capacity for (uniform
\* count x frame slots) static and dynamic uniform descriptors and (texture
\* count x frame slots) combined-image-sampler descriptors, so the descriptor
\* sets of all frame slots never need more descriptors of any type than the
\* pool holds.
C27_PoolCapacity ==
    detail.descriptor_pool # Null /\ ~ detail.invalidated =>
        \A t \in DescriptorTypes :
            /\ detail.pool.sizes[t] = DeclaredDescriptors[t] * FRAME_BUFFER_COUNT
            /\ detail.pool.used[t] <= detail.pool.sizes[t]

\* the material is compiled
Validated ==
    /\ ~ detail.invalidated
    /\ detail.graphics_pipeline # Null
    /\ ~ detail_panicked

\* one descriptor set per frame slot
OneSetPerSlot ==
    /\ Len(detail.descriptor_sets) = FRAME_BUFFER_COUNT
    /\ \A frame \in Slots : detail.descriptor_sets[frame + 1].frame = frame

\* C28 as stated: after a material has been compiled it holds exactly one
\* descriptor set per frame slot, for every combination of declared uniforms
\* and textures.
C28_OneSetPerSlot == Validated => OneSetPerSlot

\* C28: after a material has been compiled it holds exactly one descriptor
\* set per frame slot, for every combination of declared uniforms and
\* textures with at least one uniform or texture, and no descriptor set when
\* it declares neither.
C28_OneSetPerSlotIfDeclared ==
    Validated =>
        IF detail.uniforms = << >> /\ detail.textures = 0
        THEN detail.descriptor_sets = << >>
        ELSE OneSetPerSlot

C28_Witness ==
    /\ Validated
    /\ Len(detail.uniforms) = MaxUniforms
    /\ detail.textures = MaxTextures
    /\ OneSetPerSlot


\* ------------------------------------------------------------------- C29

\* C29: whenever begin_frame waits on the fence of its slot, the fence is
\* signaled or a submission that will signal it is pending in the slot, so
\* that the wait ends once the GPU has completed the submission; this also
\* after the previous begin_frame of the slot aborted on a failed acquisition
C29_FenceWillSignal ==
    pc = "wait" => (fence[frame_index] \/ inflight[frame_index])


\* ------------------------------------------------------------------- C30

\* C30: Task.stop() called after Task.start() terminates in every interleaving
\* with the worker thread: while stop() waits in join(), the worker has left
\* its loop or leaves it at its next check, and once stop() has returned the
\* worker is joined and is_running() is false
C30_StopTerminates ==
    /\ caller.op = "join" => worker_leaves(caller.i)
    /\ \A i \in TaskIds :
         (caller.op = "done" \/ (caller.op = "stop" /\ i < caller.i))
            => (worker_pc[i] = "joined" /\ ~ task_running[i])


\* ------------------------------------------------------------------- C31

\* C31: for a dynamic uniform, the position the GPU reads at a draw, the
\* offset of the descriptor written when the material was compiled plus the
\* dynamic offset passed by the bind, is the byte offset of the array index
\* selected at the bind, whichever index was selected at the compilation
C31_GpuReadsSelected ==
    (/\ uniform.buffer.dynamic
     /\ array_index >= 0
     /\ uniform_op = "bind_uniforms"
     /\ buffer_info.offset # -1)
        => buffer_info.offset + dynamic_offsets[1] = array_index * uniform.aligned_data_size


\* ------------------------------------------------------------------- C32

\* C32: Uniform::update and Uniform::update_all, called between a successful
\* begin_frame and its end_frame, write no per-slot instance of the uniform
\* buffer whose slot still has a submission in flight
C32_NoWriteInFlight == host_write.in_flight = { }


\* ------------------------------------------------------------------- C33

\* C33: every draw recorded through a VertexQueue renders the vertex data
\* pushed for its own batch: when the frame is submitted, each recorded draw
\* reads the quads that the queue held when the draw was recorded, whatever
\* later batches of the same frame uploaded
C33_DrawReadsOwnBatch ==
    \A d \in 1 .. Len(vq_rendered) : vq_rendered[d].read = vq_rendered[d].pushed

\* ------------------------------------------------------------------- C37

\* C37: count + reserved <= capacity after any sequence of begin, clear,
\* reserve, push and store; a push on a full queue and a reserve that would
\* exceed the capacity or that follows a push panic and leave count and
\* reserved as they were
C37_QueueWithinCapacity ==
    /\ vq.count + vq.reserved <= vq.capacity
    /\ (vq_call.name \in { "push", "reserve" } /\ vq_call.exceeds) =>
           /\ vq.panicked
           /\ vq.count = vq_call.count
           /\ vq.reserved = vq_call.reserved


\* ------------------------------------------------------------------- C34

\* C34: after set_blending or set_blend_mode changed the value on a compiled
\* material, the draws recorded after the next bind use the new blend state,
\* with and without the dynamic blend capability of the device
C34_BlendFollowsState ==
    blend_op = "bind" =>
        blend_drawn = [ enable |-> blend.render_state.enable_blending,
                        mode   |-> blend.render_state.blend_mode ]


\* ------------------------------------------------------------------- C35

\* C35: a bound material's pipeline-state object was built against the
\* current render pass: when begin_frame has rebuilt the pipeline, and with it
\* the render pass, the bind that follows compiles the compiled material anew
C35_RebuildRecompiles ==
    [][ (/\ pc = "wait"
         /\ pc' = "draw"
         /\ reinitialized
         /\ material.graphics_pipeline # Null)
            => material'.graphics_pipeline # material.graphics_pipeline ]_vars


\* ------------------------------------------------------------------- C36

\* the threads that are inside a callback of the application object
InsideCallback ==
    (IF main_cb.at = "inside" THEN { 0 } ELSE { })
        \cup { i \in TaskIds : task_inside(task_cb[i]) # "none" }

\* C36: callbacks on the application object never run concurrently: at most
\* one thread, the main thread or a task thread, is inside a callback, and it
\* holds the application mutex
C36_CallbacksExclusive ==
    /\ Cardinality(InsideCallback) <= 1
    /\ \A t \in InsideCallback : app_mutex = t

\* a task thread is inside run_delta while the main thread waits to call
\* on_update and another task thread waits for its step
C36_Witness ==
    /\ main_cb = [ at |-> "waiting", cb |-> "on_update" ]
    /\ task_cb[1] = "run_delta"
    /\ task_cb[2] = "step_wait"


\* ------------------------------------------------------------------- C38

\* how often the shutdown made the device call c
ShutdownCalls(c) == Cardinality({ i \in DOMAIN event_log : event_log[i] = c })

\* C38: disposal is idempotent: once Exec::dispose has run Pipeline::dispose
\* twice, its own call and the one of GlobalContext::dispose, the frames, the
\* framebuffers, the render pass, the depth buffer, the image views and the
\* swapchain have each been destroyed at most once
C38_DestroyedOnce ==
    disposed => \A o \in PipelineObjects : ShutdownCalls(<< "destroy", o >>) <= 1

\* both runs of destroy_pipeline have waited for the device, three times each,
\* and every object of a live pipeline has been destroyed
C38_Witness ==
    /\ disposed
    /\ ShutdownCalls(<< "wait_idle", "device" >>) = 6
    /\ \A o \in PipelineObjects : ShutdownCalls(<< "destroy", o >>) = 1

====
